---- MODULE Spec2Model ----
(***************************************************************************)
(* Model of the Mira review engine (src/src/mira/core/engine.py) together  *)
(* with the collaborators it drives: the hosting provider (the pull        *)
(* request's threads, comments and reviews), the LLM client                *)
(* (src/src/mira/llm/provider.py) and the comment post-processing          *)
(* (severity classification and noise filter).                             *)
(*                                                                         *)
(* One review_pr run is a walk through the steps of ReviewEngine.review_pr;*)
(* every suspension point (provider call, LLM completion) is one action,   *)
(* and what the provider and the LLM answer is drawn with \E.              *)
(***************************************************************************)
EXTENDS Naturals, Integers, Sequences, FiniteSets, TLC

\* ------------------------------------------------------------------ bounds

\* Number of review_pr runs made in sequence on the same pull request.
MaxRuns == 2
\* Largest number of review chunks (one file each) a diff is split into.
MaxChunks == 2

\* --------------------------------------------------------- program constants

BLOCKER == 4
WARNING == 3
SUGGESTION == 2
NITPICK == 1

\* FilterConfig defaults; confidences are in tenths (0.7 -> 7).
confidence_threshold == 7
max_comments == 5
min_severity == NITPICK

WALKTHROUGH_MARKER == "<!-- mira-walkthrough -->"

\* ------------------------------------------------------------------ helpers

Min(S) == CHOOSE x \in S : \A y \in S : x <= y

Range(s) == {s[k] : k \in 1..Len(s)}

RECURSIVE Flatten(_)
Flatten(ss) == IF ss = <<>> THEN <<>> ELSE Head(ss) \o Flatten(Tail(ss))

\* All sequences over S of length at most n.
BoundedSeq(S, n) == UNION {[1..k -> S] : k \in 0..n}

\* ------------------------------------------------------ the pull request

\* Thread ids are tuples: a thread of the pull request is <<"T1">>; the synthetic
\* id the engine makes for a comment of an earlier chunk is
\* <<"_pending_", i, path, line>> (f"_pending_{i}_{c.path}_{c.line}").
ThreadOrder == << <<"T1">>, <<"T2">> >>
ThreadIds == Range(ThreadOrder)
\* Both threads of the seed scenario sit on the same file.
ThreadPath(id) == "src/app.py"

PendingId(i, c) == <<"_pending_", i, c.path, c.line>>

\* ------------------------------------------------------------ review comments

\* A ReviewComment. title is the set of words of the title; kw says which keyword
\* families the lowercased "title body" text hits; end_line 0 is None; suggestion and
\* agent_prompt are optional: <<>> is None, <<s>> is the string s.
Comment(path, line, sev, conf, title) ==
    [path |-> path, line |-> line, end_line |-> 0, severity |-> sev,
     category |-> "bug", kw |-> {}, title |-> title, body |-> "", confidence |-> conf,
     suggestion |-> <<>>, agent_prompt |-> <<>>]

\* _with_severity: a new ReviewComment built field by field from the old one. The
\* constructor call passes no agent_prompt, so the copy gets the default, None.
with_severity(c, sev) ==
    [path |-> c.path, line |-> c.line, end_line |-> c.end_line, severity |-> sev,
     category |-> c.category, kw |-> c.kw, title |-> c.title, body |-> c.body,
     confidence |-> c.confidence, suggestion |-> c.suggestion, agent_prompt |-> <<>>]

is_style_only(c) == "style" \in c.kw /\ ~("bug" \in c.kw)

\* Mutant: a security comment is raised to WARNING but never lowered to it.
classify_severity_RaiseOnly(c) ==
    IF "exploitable" \in c.kw
    THEN IF c.severity < BLOCKER THEN [c EXCEPT !.severity = BLOCKER] ELSE c
    ELSE IF c.category = "security" \/ "smell" \in c.kw
    THEN IF c.severity < WARNING THEN [c EXCEPT !.severity = WARNING] ELSE c
    ELSE IF (c.category = "style" \/ ("style" \in c.kw /\ ~("bug" \in c.kw)))
            /\ c.severity > NITPICK
    THEN [c EXCEPT !.severity = NITPICK]
    ELSE c

classify_severity(c) ==
    IF "exploitable" \in c.kw
    THEN IF c.severity < BLOCKER THEN with_severity(c, BLOCKER) ELSE c
    ELSE IF c.category = "security" \/ "smell" \in c.kw
    THEN IF c.severity # WARNING THEN with_severity(c, WARNING) ELSE c
    ELSE IF (c.category = "style" \/ is_style_only(c)) /\ c.severity > NITPICK
    THEN with_severity(c, NITPICK)
    ELSE c

\* jaccard(a, b) >= num/10, on word sets.
jaccard_at_least(a, b, num) ==
    /\ a # {}
    /\ b # {}
    /\ 10 * Cardinality(a \cap b) >= num * Cardinality(a \cup b)

EndOf(c) == IF c.end_line # 0 THEN c.end_line ELSE c.line

lines_overlap(c1, c2) ==
    /\ c1.path = c2.path
    /\ c1.line <= EndOf(c2)
    /\ c2.line <= EndOf(c1)

\* Mutant: only near-identical titles make two comments duplicates.
is_duplicate_TitleOnly(a, b) ==
    /\ a.path = b.path
    /\ 10 * Cardinality(a.title \cap b.title) >= 6 * Cardinality(a.title \cup b.title)
    /\ a.title # {}

is_duplicate(a, b) ==
    /\ a.path = b.path
    /\ \/ a.line = b.line /\ EndOf(a) = EndOf(b)
       \/ lines_overlap(a, b) /\ jaccard_at_least(a.title, b.title, 2)
       \/ jaccard_at_least(a.title, b.title, 6)

RECURSIVE deduplicate_from(_, _)
deduplicate_from(kept, rest) ==
    IF rest = <<>> THEN kept
    ELSE LET c == Head(rest)
         IN  deduplicate_from(
                 IF \E k \in 1..Len(kept) : is_duplicate(c, kept[k])
                 THEN kept ELSE Append(kept, c),
                 Tail(rest))

deduplicate(comments) == deduplicate_from(<<>>, comments)

\* Mutant: the sort key is (confidence, severity).
KeyGeq_ConfidenceFirst(a, b) ==
    \/ a.confidence > b.confidence
    \/ a.confidence = b.confidence /\ a.severity >= b.severity

\* (severity, confidence) of a is not below that of b.
KeyGeq(a, b) ==
    \/ a.severity > b.severity
    \/ a.severity = b.severity /\ a.confidence >= b.confidence

\* Mutant: the list is deduplicated in input order.
SortDesc_None(s) == s

\* Mutant: a stable sort on severity alone.
RECURSIVE SortDesc_SeverityOnly(_)
SortDesc_SeverityOnly(s) ==
    IF s = <<>> THEN <<>>
    ELSE LET sorted == SortDesc_SeverityOnly(SubSeq(s, 1, Len(s) - 1))
             c == s[Len(s)]
             n == Cardinality({k \in 1..Len(sorted) : sorted[k].severity >= c.severity})
         IN  SubSeq(sorted, 1, n) \o <<c>> \o SubSeq(sorted, n + 1, Len(sorted))

\* list.sort(key=(severity, confidence), reverse=True): stable, descending.
RECURSIVE SortDesc(_)
SortDesc(s) ==
    IF s = <<>> THEN <<>>
    ELSE LET sorted == SortDesc(SubSeq(s, 1, Len(s) - 1))
             c == s[Len(s)]
             n == Cardinality({k \in 1..Len(sorted) : KeyGeq(sorted[k], c)})
         IN  SubSeq(sorted, 1, n) \o <<c>> \o SubSeq(sorted, n + 1, Len(sorted))

\* The FilterConfig the engine runs with (the defaults).
FilterConfig == [confidence_threshold |-> confidence_threshold,
                 max_comments |-> max_comments,
                 min_severity |-> min_severity]

\* result[:n]
Take(s, n) == SubSeq(s, 1, IF Len(s) < n THEN Len(s) ELSE n)

\* Mutant: the cap is applied to the sorted list, before deduplication.
filter_noise_CapFirst(comments, config) ==
    LET confident == SelectSeq(comments, LAMBDA c : c.confidence >= config.confidence_threshold)
        severe == SelectSeq(confident, LAMBDA c : c.severity >= config.min_severity)
    IN  deduplicate(Take(SortDesc(severe), config.max_comments))

filter_noise(comments, config) ==
    LET confident == SelectSeq(comments, LAMBDA c : c.confidence >= config.confidence_threshold)
        severe == SelectSeq(confident, LAMBDA c : c.severity >= config.min_severity)
        deduped == deduplicate(SortDesc(severe))
    IN  Take(deduped, config.max_comments)

\* ------------------------------------------------------------------- state

VARIABLES
    self,                \* the engine: [dry_run, bot_name, walkthrough (config.review.walkthrough)]
    pr,                  \* the pull request on the provider: threads, resolved, comments, reviews
    llm_fixed,           \* the threads the model judges fixed when it is asked
    run,                 \* number of the review_pr run in progress
    pc,                  \* position in review_pr
    calls,               \* provider and LLM operations invoked in this run, in order
    threads,             \* _resolve_verified_threads: the fetched threads
    file_contents,       \* _resolve_verified_threads: paths fetched so far
    unresolved_threads,  \* review_pr local
    thread_decisions,    \* review_pr local
    diff,                \* what get_pr_diff returned
    chunk_i,             \* index of the chunk under review
    walkthrough,         \* _review_diff_internal local: TRUE when a WalkthroughResult was built
    all_comments,        \* _review_diff_internal local
    combined_existing,   \* _review_diff_internal local: thread ids shown to the next prompt
    existing_id,         \* review_pr local: result of find_bot_comment (0 is None)
    result,              \* the ReviewResult
    outcome,             \* "running", "returned" or "raised"
    exc,                 \* the exception that left review_pr
    failed,              \* steps of this run in which an exception was raised
    chunk_log,           \* per chunk reviewed: what the completion and the parse gave
    wt_write,            \* walkthrough write of this run: "none", "post_comment", "update_comment"
    wt_history           \* wt_write of the runs before this one

\* The components exercised on their own: the LLM client, filter_noise, classify_severity.
VARIABLES
    llm,                 \* LLMProvider: [fallback_model, total_prompt_tokens, total_completion_tokens]
    tasks,               \* the complete() calls on the client: position and attempts of each
    reported,            \* sum of the usage carried by every response received so far
    fn_comments,         \* filter_noise: the comments argument
    fn_config,           \* filter_noise: the config argument
    fn_result,           \* filter_noise: [done, comments]
    cs_comment,          \* classify_severity: the comment argument
    cs_result            \* classify_severity: [done, comment]

llm_vars == <<llm, tasks, reported>>
fn_vars == <<fn_comments, fn_config, fn_result>>
cs_vars == <<cs_comment, cs_result>>

\* More components exercised on their own: convert_to_review_comments, chunk_files, the
\* max_diff_size cut of _review_diff_internal, and one operation of the GitHub provider.
VARIABLES
    cv_response,         \* convert_to_review_comments: response.comments
    cv_valid_paths,      \* convert_to_review_comments: valid_paths (<<>> is None, <<S>> a set)
    cv_diff_files,       \* convert_to_review_comments: diff_files (<<>> is None or [])
    cv_result,           \* convert_to_review_comments: [done, comments]
    ck_files,            \* chunk_files: the files argument
    ck_max_tokens,       \* chunk_files: the max_tokens argument
    ck_provider,         \* chunk_files: the provider argument ("none" is None)
    ck_result,           \* chunk_files: [done, chunks]
    td_diff_text,        \* _review_diff_internal: the diff_text argument
    td_max_diff_size,    \* config.review.max_diff_size
    td_result,           \* _review_diff_internal: [done, reviewed, raised, files]
    gh_call,             \* the provider operation in progress: [op, pc]
    gh_attempts,         \* what each attempt of the wrapped function did, in order
    gh_outcome           \* how the operation ended: "none", "returned" or the exception class

VARIABLES
    ec_files,            \* expand_context: the files argument
    ec_context_lines,    \* expand_context: the context_lines argument
    ec_result            \* [done, files, again]: the value returned, and expand_context of it

VARIABLES
    vf_threads,          \* _resolve_verified_threads: the threads fetched, by id
    vf_raw,              \* the raw completion _verify_fixes received
    vf_dry_run,          \* self.dry_run
    vf_result            \* [done, raised, verified_ids, decisions, remaining, resolve_calls,
                         \*  resolved]

VARIABLES
    wh_inbox,            \* requests sent to /webhook and not yet answered
    wh_last,             \* the request answered last and its response
    wh_tasks,            \* handlers given to background_tasks.add_task, not yet run
    wh_counts            \* [delivered, scheduled, ran]: outside deliveries, handlers
                         \* scheduled, handlers run

ec_vars == <<ec_files, ec_context_lines, ec_result>>
vf_vars == <<vf_threads, vf_raw, vf_dry_run, vf_result>>
VARIABLES
    rc_comments,         \* issue comments of the pull request the tasks review
    rc_pc,               \* per task: position in handle_pull_request / review_pr
    rc_existing_id,      \* per task: review_pr local existing_id (0 is None)
    rc_write,            \* per task: "none", "post_comment" or "update_comment"
    rc_reviews           \* reviews posted on the pull request

wh_vars == <<wh_inbox, wh_last, wh_tasks, wh_counts>>
rc_vars == <<rc_comments, rc_pc, rc_existing_id, rc_write, rc_reviews>>
ext_vars == <<ec_vars, vf_vars, wh_vars, rc_vars>>

cv_vars == <<cv_response, cv_valid_paths, cv_diff_files, cv_result>>
ck_vars == <<ck_files, ck_max_tokens, ck_provider, ck_result>>
td_vars == <<td_diff_text, td_max_diff_size, td_result>>
gh_vars == <<gh_call, gh_attempts, gh_outcome>>
unit_vars == <<cv_vars, ck_vars, td_vars, gh_vars, ext_vars>>
lib_vars == <<llm_vars, fn_vars, cs_vars, unit_vars>>

engine_vars == <<self, pr, llm_fixed, run, pc, calls, threads, file_contents,
          unresolved_threads, thread_decisions, diff, chunk_i, walkthrough,
          all_comments, combined_existing, existing_id, result, outcome, exc,
          failed, chunk_log, wt_write, wt_history>>

vars == <<engine_vars, lib_vars>>

env == <<self, llm_fixed, run, wt_history>>
verify_locals == <<threads, file_contents, unresolved_threads, thread_decisions>>
review_locals == <<diff, chunk_i, walkthrough, all_comments, combined_existing, chunk_log>>
upsert_locals == <<existing_id, wt_write>>

NoResult == [comments |-> <<>>, walkthrough |-> FALSE, reviewed_files |-> 0,
             thread_decisions |-> <<>>]
NoExc == [step |-> "none", kind |-> "none"]
NoDiff == [kind |-> "none", chunks |-> 0]

Call(op, ids) == [op |-> op, ids |-> ids]
Ops(log) == {log[k].op : k \in 1..Len(log)}

\* Locals of a fresh review_pr call.
FreshRun ==
    /\ pc = "get_pr_info"
    /\ calls = <<>>
    /\ threads = <<>>
    /\ file_contents = {}
    /\ unresolved_threads = <<>>
    /\ thread_decisions = <<>>
    /\ diff = NoDiff
    /\ chunk_i = 0
    /\ walkthrough = FALSE
    /\ all_comments = <<>>
    /\ combined_existing = <<>>
    /\ existing_id = 0
    /\ result = NoResult
    /\ outcome = "running"
    /\ exc = NoExc
    /\ failed = {}
    /\ chunk_log = <<>>
    /\ wt_write = "none"

\* The same, as the effect of entering review_pr again.
EnterRun ==
    /\ pc' = "get_pr_info"
    /\ calls' = <<>>
    /\ threads' = <<>>
    /\ file_contents' = {}
    /\ unresolved_threads' = <<>>
    /\ thread_decisions' = <<>>
    /\ diff' = NoDiff
    /\ chunk_i' = 0
    /\ walkthrough' = FALSE
    /\ all_comments' = <<>>
    /\ combined_existing' = <<>>
    /\ existing_id' = 0
    /\ result' = NoResult
    /\ outcome' = "running"
    /\ exc' = NoExc
    /\ failed' = {}
    /\ chunk_log' = <<>>
    /\ wt_write' = "none"

\* A response without a usage object adds nothing to the counters.
NoUsage == [prompt_tokens |-> 0, completion_tokens |-> 0]

\* LLMProvider.__init__ with no fallback model, and no complete() call made.
LLMIdle ==
    /\ llm = [fallback_model |-> FALSE, total_prompt_tokens |-> 0,
              total_completion_tokens |-> 0]
    /\ tasks = <<>>
    /\ reported = NoUsage

\* filter_noise and classify_severity not called.
FilterIdle ==
    /\ fn_comments = <<>>
    /\ fn_config = FilterConfig
    /\ fn_result = [done |-> FALSE, comments |-> <<>>]

ClassifyIdle ==
    /\ cs_comment = Comment("", 0, NITPICK, 0, {})
    /\ cs_result = [done |-> FALSE, comment |-> Comment("", 0, NITPICK, 0, {})]

\* convert_to_review_comments, chunk_files, the diff cut and the provider not called.
ConvertIdle ==
    /\ cv_response = <<>>
    /\ cv_valid_paths = <<>>
    /\ cv_diff_files = <<>>
    /\ cv_result = [done |-> FALSE, comments |-> <<>>]

ChunkIdle ==
    /\ ck_files = <<>>
    /\ ck_max_tokens = 0
    /\ ck_provider = "none"
    /\ ck_result = [done |-> FALSE, chunks |-> <<>>]

TruncateIdle ==
    /\ td_diff_text = <<>>
    /\ td_max_diff_size = 0
    /\ td_result = [done |-> FALSE, raised |-> FALSE, reviewed |-> <<>>, files |-> <<>>]

ProviderIdle ==
    /\ gh_call = [op |-> "none", pc |-> "idle"]
    /\ gh_attempts = <<>>
    /\ gh_outcome = "none"

ExpandIdle ==
    /\ ec_files = <<>>
    /\ ec_context_lines = 0
    /\ ec_result = [done |-> FALSE, files |-> <<>>, again |-> <<>>]

NoVerifyResult ==
    [done |-> FALSE, raised |-> "none", verified_ids |-> <<>>, decisions |-> <<>>,
     remaining |-> <<>>, resolve_calls |-> <<>>, resolved |-> {}]

VerifyIdle ==
    /\ vf_threads = <<>>
    /\ vf_raw = [wrap |-> "None", doc |-> [t |-> "garbage"]]
    /\ vf_dry_run = TRUE
    /\ vf_result = NoVerifyResult

WebhookIdle ==
    /\ wh_inbox = <<>>
    /\ wh_last = [handled |-> FALSE]
    /\ wh_tasks = <<>>
    /\ wh_counts = [delivered |-> 0, scheduled |-> 0, ran |-> 0]

RaceIdle ==
    /\ rc_comments = <<>>
    /\ rc_pc = <<>>
    /\ rc_existing_id = <<>>
    /\ rc_write = <<>>
    /\ rc_reviews = 0

ExtIdle == ExpandIdle /\ VerifyIdle /\ WebhookIdle /\ RaceIdle

UnitsIdle == ConvertIdle /\ ChunkIdle /\ TruncateIdle /\ ProviderIdle /\ ExtIdle

\* An engine on which review_pr is never called.
EngineIdle ==
    /\ self = [dry_run |-> TRUE, bot_name |-> "", walkthrough |-> FALSE]
    /\ pr = [threads |-> <<>>, resolved |-> {}, comments |-> <<>>, reviews |-> 0]
    /\ llm_fixed = {}
    /\ run = 1
    /\ wt_history = <<>>
    /\ FreshRun

Init ==
    /\ LLMIdle
    /\ FilterIdle
    /\ ClassifyIdle
    /\ UnitsIdle
    /\ self \in [dry_run : BOOLEAN, bot_name : {"", "mira"}, walkthrough : BOOLEAN]
    /\ \E S \in SUBSET ThreadIds :
          pr = [threads |-> SelectSeq(ThreadOrder, LAMBDA t : t \in S),
                resolved |-> {}, comments |-> <<>>, reviews |-> 0]
    /\ llm_fixed \in SUBSET Range(pr.threads)
    /\ run = 1
    /\ wt_history = <<>>
    /\ FreshRun

\* ------------------------------------------------------------- the LLM client

\* Parameters LLMProvider.complete accepts.
CompleteParams == {"messages", "json_mode"}

\* Arguments of the call _verify_fixes makes: complete(prompt, json_mode=True, temperature=0.0).
VerifyFixesArgs == {"messages", "json_mode", "temperature"}

\* What the model answers to the verify-fixes prompt: one entry per thread shown.
VerifyResponse(ts) == [k \in 1..Len(ts) |-> [id |-> ts[k], fixed |-> ts[k] \in llm_fixed]]

\* Ids of the entries with "fixed": true, in response order.
parse_verify_fixes_response(results) ==
    LET hits == SelectSeq(results, LAMBDA e : e.fixed = TRUE)
    IN  [k \in 1..Len(hits) |-> hits[k].id]

\* ------------------------------------------------------------ control of review_pr

\* Mutant: thread verification deferred until the review has been posted.
Steps_VerifyLast == <<"get_pr_info", "get_pr_diff", "review",
                      "upsert_walkthrough", "post_review", "verify_fixes">>

\* Mutant: the inline review posted ahead of the walkthrough comment.
Steps_ReviewFirst == <<"get_pr_info", "verify_fixes", "get_pr_diff", "review",
                       "post_review", "upsert_walkthrough">>

\* Mutant: the diff fetched ahead of the thread verification.
Steps_DiffFirst == <<"get_pr_info", "get_pr_diff", "verify_fixes", "review",
                     "upsert_walkthrough", "post_review">>

\* The steps of review_pr in program order.
Steps == <<"get_pr_info", "verify_fixes", "get_pr_diff", "review",
           "upsert_walkthrough", "post_review">>

\* Mutant: the review is posted without looking at dry_run.
StepRuns_IgnoresDryRun(step, res) ==
    CASE step = "verify_fixes" -> self.bot_name # ""
      [] step = "upsert_walkthrough" -> res.walkthrough /\ ~self.dry_run
      [] step = "post_review" -> res.comments # <<>>
      [] OTHER -> TRUE

\* Mutant: the review is posted even when no comment survived.
StepRuns_PostsEmpty(step, res) ==
    CASE step = "verify_fixes" -> self.bot_name # ""
      [] step = "upsert_walkthrough" -> res.walkthrough /\ ~self.dry_run
      [] step = "post_review" -> ~self.dry_run
      [] OTHER -> TRUE

\* The condition under which review_pr enters a step, given the review result so far.
StepRuns(step, res) ==
    CASE step = "verify_fixes" -> self.bot_name # ""
      [] step = "upsert_walkthrough" -> res.walkthrough /\ ~self.dry_run
      [] step = "post_review" -> res.comments # <<>> /\ ~self.dry_run
      [] OTHER -> TRUE

IndexOf(step) == CHOOSE k \in 1..Len(Steps) : Steps[k] = step

\* The step review_pr runs after `step`, or "return".
Goto(step, res) ==
    LET later == {k \in (IndexOf(step) + 1)..Len(Steps) : StepRuns(Steps[k], res)}
    IN  IF later = {} THEN "return" ELSE Steps[Min(later)]

\* Exception classes that derive from Exception.
ExceptionClasses == {"ProviderError", "LLMError", "ResponseParseError",
                     "DiffParseError", "TypeError"}

\* Mutant: thread verification guarded by "except ProviderError" only.
Catches_VerifyNarrow(block, kind) ==
    CASE block = "verify_fixes" -> kind = "ProviderError"
      [] block = "walkthrough" -> kind \in ExceptionClasses
      [] block = "chunk" -> kind = "ResponseParseError"
      [] block = "upsert_walkthrough" -> kind \in ExceptionClasses
      [] OTHER -> FALSE

\* Mutant: the chunk loop without its except clause.
Catches_ChunkNone(block, kind) ==
    CASE block = "verify_fixes" -> kind \in ExceptionClasses
      [] block = "walkthrough" -> kind \in ExceptionClasses
      [] block = "upsert_walkthrough" -> kind \in ExceptionClasses
      [] OTHER -> FALSE

\* Mutant: walkthrough generation guarded by "except ResponseParseError" only.
Catches_WalkthroughNarrow(block, kind) ==
    CASE block = "verify_fixes" -> kind \in ExceptionClasses
      [] block = "walkthrough" -> kind = "ResponseParseError"
      [] block = "chunk" -> kind = "ResponseParseError"
      [] block = "upsert_walkthrough" -> kind \in ExceptionClasses
      [] OTHER -> FALSE

\* Mutant: the walkthrough upsert without its except clause.
Catches_UpsertNone(block, kind) ==
    CASE block = "verify_fixes" -> kind \in ExceptionClasses
      [] block = "walkthrough" -> kind \in ExceptionClasses
      [] block = "chunk" -> kind = "ResponseParseError"
      [] OTHER -> FALSE

\* Mutant: the best-effort handlers written as bare "except:" clauses.
Catches_BareExcept(block, kind) ==
    CASE block = "verify_fixes" -> TRUE
      [] block = "walkthrough" -> TRUE
      [] block = "chunk" -> kind = "ResponseParseError"
      [] block = "upsert_walkthrough" -> TRUE
      [] OTHER -> FALSE

\* The except clauses of the engine: does the handler around `block` catch `kind`?
Catches(block, kind) ==
    CASE block = "verify_fixes" -> kind \in ExceptionClasses
      [] block = "walkthrough" -> kind \in ExceptionClasses
      [] block = "chunk" -> kind = "ResponseParseError"
      [] block = "upsert_walkthrough" -> kind \in ExceptionClasses
      [] OTHER -> FALSE

\* `step` is over with review result res: go on to the next step, or return res.
Finish(step, res, decisions) ==
    LET nxt == Goto(step, res)
    IN  /\ pc' = IF nxt = "return" THEN "done" ELSE nxt
        /\ outcome' = IF nxt = "return" THEN "returned" ELSE outcome
        /\ result' = IF nxt = "return"
                     THEN [res EXCEPT !.thread_decisions = decisions] ELSE res
        /\ exc' = exc

\* An exception of class kind leaves review_pr.
Escape(step, kind) ==
    /\ pc' = "done"
    /\ outcome' = "raised"
    /\ exc' = [step |-> step, kind |-> kind]
    /\ result' = result

\* An exception raised inside the try block of review_pr around _resolve_verified_threads.
VerifyFixesRaised(kind) ==
    /\ failed' = failed \cup {"verify_fixes"}
    /\ IF Catches("verify_fixes", kind)
       THEN Finish("verify_fixes", result, thread_decisions)
       ELSE Escape("verify_fixes", kind)

\* ------------------------------------------------------------------ actions

get_pr_info ==
    /\ pc = "get_pr_info"
    /\ UNCHANGED lib_vars
    /\ calls' = Append(calls, Call("get_pr_info", <<>>))
    /\ \/ /\ Finish("get_pr_info", result, thread_decisions)
          /\ failed' = failed
       \/ /\ Escape("get_pr_info", "ProviderError")
          /\ failed' = failed \cup {"get_pr_info"}
    /\ UNCHANGED <<env, pr, verify_locals, review_locals, upsert_locals>>

get_unresolved_bot_threads ==
    /\ pc = "verify_fixes"
    /\ UNCHANGED lib_vars
    /\ calls' = Append(calls, Call("get_unresolved_bot_threads", <<>>))
    /\ \/ LET ts == SelectSeq(pr.threads, LAMBDA t : t \notin pr.resolved)
          IN  /\ threads' = ts
              /\ failed' = failed
              /\ IF ts = <<>>
                 THEN Finish("verify_fixes", result, <<>>)
                 ELSE /\ pc' = "fetch_files"
                      /\ UNCHANGED <<outcome, result, exc>>
       \/ /\ VerifyFixesRaised("ProviderError")
          /\ threads' = threads
    /\ UNCHANGED <<env, pr, file_contents, unresolved_threads, thread_decisions,
                   review_locals, upsert_locals>>

\* Paths of the fetched threads whose content is still to be fetched.
PathsToFetch == {ThreadPath(threads[k]) : k \in 1..Len(threads)} \ file_contents

get_file_content ==
    /\ pc = "fetch_files"
    /\ UNCHANGED lib_vars
    /\ LET k == Min({j \in 1..Len(threads) : ThreadPath(threads[j]) \in PathsToFetch})
           path == ThreadPath(threads[k])
       IN  /\ calls' = Append(calls, Call("get_file_content", << <<path>> >>))
           /\ \/ /\ file_contents' = file_contents \cup {path}
                 /\ pc' = IF PathsToFetch = {path} THEN "verify_llm" ELSE "fetch_files"
                 /\ UNCHANGED <<outcome, result, exc, failed>>
              \/ /\ VerifyFixesRaised("ProviderError")
                 /\ file_contents' = file_contents
    /\ UNCHANGED <<env, pr, threads, unresolved_threads, thread_decisions,
                   review_locals, upsert_locals>>

\* The rest of _resolve_verified_threads once the completion returned `response`.
ResolveVerified(response) ==
    LET verified_ids == parse_verify_fixes_response(response)
        verified_set == Range(verified_ids)
        decisions == [k \in 1..Len(threads) |->
                         [thread_id |-> threads[k], fixed |-> threads[k] \in verified_set]]
        remaining == SelectSeq(threads, LAMBDA t : t \notin verified_set)
        done == /\ unresolved_threads' = remaining
                /\ thread_decisions' = decisions
                /\ failed' = failed
                /\ Finish("verify_fixes", result, decisions)
    IN  IF verified_ids = <<>> \/ self.dry_run
        THEN /\ calls' = Append(calls, Call("complete_verify", threads))
             /\ pr' = pr
             /\ done
        ELSE /\ calls' = calls \o <<Call("complete_verify", threads),
                                    Call("resolve_threads", verified_ids)>>
             /\ \/ /\ \E ok \in SUBSET (verified_set \cap Range(pr.threads)) :
                         pr' = [pr EXCEPT !.resolved = @ \cup ok]
                   /\ done
                \/ /\ pr' = pr
                   /\ VerifyFixesRaised("ProviderError")
                   /\ UNCHANGED <<unresolved_threads, thread_decisions>>

verify_fixes ==
    /\ pc = "verify_llm"
    /\ UNCHANGED lib_vars
    /\ IF ~(VerifyFixesArgs \subseteq CompleteParams)
       THEN /\ calls' = Append(calls, Call("complete_verify", threads))
            /\ VerifyFixesRaised("TypeError")
            /\ UNCHANGED <<pr, unresolved_threads, thread_decisions>>
       ELSE \/ ResolveVerified(VerifyResponse(threads))
            \/ /\ calls' = Append(calls, Call("complete_verify", threads))
               /\ VerifyFixesRaised("LLMError")
               /\ UNCHANGED <<pr, unresolved_threads, thread_decisions>>
    /\ UNCHANGED <<env, threads, file_contents, review_locals, upsert_locals>>

\* What the provider can hand back as the diff: text unidiff rejects, a diff with no
\* file, a diff whose files are all excluded, or n files that chunk_files puts in n chunks.
DiffKinds ==
    {[kind |-> k, chunks |-> 0] : k \in {"malformed", "empty", "all_filtered"}}
        \cup {[kind |-> "files", chunks |-> n] : n \in 1..MaxChunks}

get_pr_diff ==
    /\ pc = "get_pr_diff"
    /\ UNCHANGED lib_vars
    /\ calls' = Append(calls, Call("get_pr_diff", <<>>))
    /\ \/ /\ \E d \in DiffKinds : diff' = d
          /\ Finish("get_pr_diff", result, thread_decisions)
          /\ failed' = failed
       \/ /\ Escape("get_pr_diff", "ProviderError")
          /\ failed' = failed \cup {"get_pr_diff"}
          /\ diff' = diff
    /\ UNCHANGED <<env, pr, verify_locals, chunk_i, walkthrough, all_comments,
                   combined_existing, chunk_log, upsert_locals>>

\* ReviewResult of _review_diff_internal.
ReviewResult(comments, wt, n) ==
    [comments |-> comments, walkthrough |-> wt, reviewed_files |-> n,
     thread_decisions |-> <<>>]

\* Enter the chunk loop of _review_diff_internal with the walkthrough wt.
EnterChunks(wt) ==
    /\ walkthrough' = wt
    /\ chunk_i' = 1
    /\ combined_existing' = unresolved_threads
    /\ pc' = "chunks"
    /\ UNCHANGED <<outcome, result, exc>>

\* Mutant: the early return for a diff whose files are all filtered out is missing.
HasFiles_IgnoresFilter(d) == d.kind \in {"files", "all_filtered"}

\* patch.files and filtered are both non-empty (neither early return is taken).
HasFiles(d) == d.kind = "files"

\* _review_diff_internal up to the chunk loop: parse, filter, walkthrough.
review_diff_internal ==
    /\ pc = "review"
    /\ UNCHANGED lib_vars
    /\ \/ /\ diff.kind = "malformed"
          /\ Escape("parse_diff", "DiffParseError")
          /\ failed' = failed \cup {"parse_diff"}
          /\ UNCHANGED <<calls, walkthrough, chunk_i, combined_existing>>
       \/ /\ diff.kind # "malformed"
          /\ ~HasFiles(diff)
          /\ Finish("review", ReviewResult(<<>>, FALSE, 0), thread_decisions)
          /\ UNCHANGED <<calls, failed, walkthrough, chunk_i, combined_existing>>
       \/ /\ diff.kind # "malformed"
          /\ HasFiles(diff)
          /\ ~self.walkthrough
          /\ EnterChunks(FALSE)
          /\ UNCHANGED <<calls, failed>>
       \/ /\ diff.kind # "malformed"
          /\ HasFiles(diff)
          /\ self.walkthrough
          /\ calls' = Append(calls, Call("complete_walkthrough", <<>>))
          /\ \/ /\ EnterChunks(TRUE)
                /\ failed' = failed
             \/ \E kind \in {"LLMError", "ResponseParseError"} :
                   /\ failed' = failed \cup {"walkthrough"}
                   /\ IF Catches("walkthrough", kind)
                      THEN EnterChunks(FALSE)
                      ELSE /\ Escape("walkthrough", kind)
                           /\ UNCHANGED <<walkthrough, chunk_i, combined_existing>>
    /\ UNCHANGED <<env, pr, verify_locals, diff, all_comments, chunk_log, upsert_locals>>

\* The comments convert_to_review_comments can accept from the response to chunk i.
ChunkComments(i) ==
    {<<>>,
     <<Comment(i, 1, SUGGESTION, 9, {"null", "check"})>>,
     <<Comment(i, 1, SUGGESTION, 5, {"maybe", "rename"})>>}

\* End of one iteration of the chunk loop: next chunk, or classify, filter and return.
ChunkDone(comments) ==
    IF chunk_i < diff.chunks
    THEN /\ chunk_i' = chunk_i + 1
         /\ UNCHANGED <<pc, outcome, result, exc>>
    ELSE LET classified == [k \in 1..Len(comments) |-> classify_severity(comments[k])]
         IN  /\ chunk_i' = chunk_i
             /\ Finish("review",
                       ReviewResult(filter_noise(classified, FilterConfig), walkthrough, diff.chunks),
                       thread_decisions)

\* An exception raised inside the try block of the chunk loop.
ChunkRaised(kind) ==
    /\ failed' = failed \cup {"chunk"}
    /\ chunk_log' = Append(chunk_log, [kind |-> kind, comments |-> <<>>])
    /\ UNCHANGED <<all_comments, combined_existing>>
    /\ IF Catches("chunk", kind)
       THEN ChunkDone(all_comments)
       ELSE /\ Escape("chunk", kind)
            /\ chunk_i' = chunk_i

\* Mutant: the comments of a chunk are not handed to the prompts of later chunks.
append_pending_Forgets(existing, i, cs) == existing

\* The loop over the accepted comments of chunk i (zero-based): one synthetic
\* thread per comment is appended to combined_existing, in order.
append_pending(existing, i, cs) ==
    existing \o [k \in 1..Len(cs) |-> PendingId(i, cs[k])]

review_chunk ==
    /\ pc = "chunks"
    /\ UNCHANGED lib_vars
    /\ calls' = Append(calls, Call("complete_review", combined_existing))
    /\ \/ \E cs \in ChunkComments(chunk_i) :
             /\ all_comments' = all_comments \o cs
             /\ combined_existing' = append_pending(combined_existing, chunk_i - 1, cs)
             /\ chunk_log' = Append(chunk_log, [kind |-> "ok", comments |-> cs])
             /\ failed' = failed
             /\ ChunkDone(all_comments \o cs)
       \/ ChunkRaised("LLMError")
       \/ ChunkRaised("ResponseParseError")
    /\ UNCHANGED <<env, pr, verify_locals, diff, walkthrough, upsert_locals>>

\* Mutant: the rendered walkthrough without its marker line.
to_markdown_NoMarker(n) == <<"## Mira PR Walkthrough", ToString(n)>>

\* WalkthroughResult.to_markdown: the marker is the first line of the body.
to_markdown(n) == <<WALKTHROUGH_MARKER, "## Mira PR Walkthrough", ToString(n)>>

\* marker in comment.body
Contains(body, marker) == \E k \in 1..Len(body) : body[k] = marker

\* An exception raised inside the try block of the walkthrough upsert.
UpsertRaised(kind) ==
    /\ failed' = failed \cup {"upsert_walkthrough"}
    /\ IF Catches("upsert_walkthrough", kind)
       THEN Finish("upsert_walkthrough", result, thread_decisions)
       ELSE Escape("upsert_walkthrough", kind)

find_bot_comment ==
    /\ pc = "upsert_walkthrough"
    /\ UNCHANGED lib_vars
    /\ calls' = Append(calls, Call("find_bot_comment", <<>>))
    /\ \/ LET hits == {k \in 1..Len(pr.comments) :
                          Contains(pr.comments[k].body, WALKTHROUGH_MARKER)}
          IN  /\ existing_id' = IF hits = {} THEN 0 ELSE pr.comments[Min(hits)].id
              /\ pc' = IF hits = {} THEN "post_comment" ELSE "update_comment"
              /\ UNCHANGED <<outcome, result, exc, failed>>
       \/ /\ UpsertRaised("ProviderError")
          /\ existing_id' = existing_id
    /\ UNCHANGED <<env, pr, verify_locals, review_locals, wt_write>>

update_comment ==
    /\ pc = "update_comment"
    /\ UNCHANGED lib_vars
    /\ calls' = Append(calls, Call("update_comment", <<>>))
    /\ \/ /\ pr' = [pr EXCEPT !.comments =
                       [k \in 1..Len(@) |->
                           IF @[k].id = existing_id
                           THEN [@[k] EXCEPT !.body = to_markdown(run)] ELSE @[k]]]
          /\ wt_write' = "update_comment"
          /\ failed' = failed
          /\ Finish("upsert_walkthrough", result, thread_decisions)
       \/ /\ UpsertRaised("ProviderError")
          /\ UNCHANGED <<pr, wt_write>>
    /\ UNCHANGED <<env, verify_locals, review_locals, existing_id>>

post_comment ==
    /\ pc = "post_comment"
    /\ UNCHANGED lib_vars
    /\ calls' = Append(calls, Call("post_comment", <<>>))
    /\ \/ /\ pr' = [pr EXCEPT !.comments =
                       Append(@, [id |-> Len(@) + 1, body |-> to_markdown(run)])]
          /\ wt_write' = "post_comment"
          /\ failed' = failed
          /\ Finish("upsert_walkthrough", result, thread_decisions)
       \/ /\ UpsertRaised("ProviderError")
          /\ UNCHANGED <<pr, wt_write>>
    /\ UNCHANGED <<env, verify_locals, review_locals, existing_id>>

post_review ==
    /\ pc = "post_review"
    /\ UNCHANGED lib_vars
    /\ calls' = Append(calls, Call("post_review", <<>>))
    /\ \/ /\ pr' = [pr EXCEPT !.reviews = @ + 1]
          /\ failed' = failed
          /\ Finish("post_review", result, thread_decisions)
       \/ /\ Escape("post_review", "ProviderError")
          /\ failed' = failed \cup {"post_review"}
          /\ pr' = pr
    /\ UNCHANGED <<env, verify_locals, review_locals, upsert_locals>>

\* The next review_pr call on the same pull request, with a fresh engine state.
next_run ==
    /\ pc = "done"
    /\ UNCHANGED lib_vars
    /\ run < MaxRuns
    /\ run' = run + 1
    /\ wt_history' = Append(wt_history, wt_write)
    /\ EnterRun
    /\ UNCHANGED <<self, pr, llm_fixed>>

Next ==
    \/ get_pr_info
    \/ get_unresolved_bot_threads
    \/ get_file_content
    \/ verify_fixes
    \/ get_pr_diff
    \/ review_diff_internal
    \/ review_chunk
    \/ find_bot_comment
    \/ update_comment
    \/ post_comment
    \/ post_review
    \/ next_run

Spec == Init /\ [][Next]_vars

\* ------------------------------------------------- the LLM client on its own

\* Number of complete() calls made on one client, in sequence or overlapping.
MaxTasks == 2

\* stop=stop_after_attempt(3) on _call_llm.
stop_after_attempt == 3

Tasks == 1..MaxTasks

\* What a response can carry as usage: nothing, or token counts.
Usages == {NoUsage, [prompt_tokens |-> 2, completion_tokens |-> 1]}

\* A complete() call not yet made. log holds the attempts that ended, seen the counters
\* as they stood when the pending request was issued, usage what its response carried.
NewTask == [pc |-> "idle", model |-> "primary", attempt |-> 0, log |-> <<>>,
            seen |-> NoUsage, usage |-> NoUsage]

Counters(l) == [prompt_tokens |-> l.total_prompt_tokens,
                completion_tokens |-> l.total_completion_tokens]

\* LLMProvider.usage
usage == [prompt_tokens |-> llm.total_prompt_tokens,
          completion_tokens |-> llm.total_completion_tokens,
          total_tokens |-> llm.total_prompt_tokens + llm.total_completion_tokens]

AddUsage(a, b) == [prompt_tokens |-> a.prompt_tokens + b.prompt_tokens,
                   completion_tokens |-> a.completion_tokens + b.completion_tokens]

LLMInit ==
    /\ EngineIdle
    /\ FilterIdle
    /\ ClassifyIdle
    /\ UnitsIdle
    /\ llm \in [fallback_model : BOOLEAN, total_prompt_tokens : {0},
                total_completion_tokens : {0}]
    /\ tasks = [t \in Tasks |-> NewTask]
    /\ reported = NoUsage

\* Mutant: the fallback is tried whether or not one is configured.
UseFallback_Unconditional(task) == task.model = "primary"

\* complete: "if self.config.fallback_model" after the primary model gave up.
UseFallback(task) == task.model = "primary" /\ llm.fallback_model

\* Mutant: the counters are read when the request is issued and written back after it.
CounterRead_BeforeAwait(t) == tasks[t].seen

\* The value "+=" reads: the counters at the moment the response is handled. No await
\* separates the read from the write.
CounterRead(t) == Counters(llm)

\* Mutant: the counters are assigned the usage of the last response.
track_usage_Overwrite(base, u) == IF u = NoUsage THEN base ELSE u

\* "if usage: total += ..." in _call_llm.
track_usage(base, u) == IF u = NoUsage THEN base ELSE AddUsage(base, u)

\* complete() is entered: _call_llm awaits the first request to the primary model.
complete(t) ==
    /\ tasks[t].pc = "idle"
    /\ tasks' = [tasks EXCEPT ![t] = [@ EXCEPT !.pc = "calling", !.attempt = 1,
                                                !.seen = Counters(llm)]]
    /\ UNCHANGED <<llm, reported, engine_vars, fn_vars, cs_vars, unit_vars>>

\* litellm.acompletion returned: the usage is tracked and the content returned.
acompletion_returns(t) ==
    /\ tasks[t].pc = "calling"
    /\ UNCHANGED <<engine_vars, fn_vars, cs_vars, unit_vars>>
    /\ \E u \in Usages :
          LET total == track_usage(CounterRead(t), u)
          IN  /\ llm' = [llm EXCEPT !.total_prompt_tokens = total.prompt_tokens,
                                    !.total_completion_tokens = total.completion_tokens]
              /\ reported' = AddUsage(reported, u)
              /\ tasks' = [tasks EXCEPT ![t] =
                     [@ EXCEPT !.pc = "returned", !.usage = u,
                               !.log = Append(@, [model |-> tasks[t].model, ok |-> TRUE])]]

\* litellm.acompletion raised: tenacity sleeps before the next attempt, or re-raises
\* after the last one, and complete turns to the fallback model or raises LLMError.
acompletion_raises(t) ==
    LET task == tasks[t]
        logged == Append(task.log, [model |-> task.model, ok |-> FALSE])
    IN  /\ task.pc = "calling"
        /\ tasks' = [tasks EXCEPT ![t] =
               IF task.attempt < stop_after_attempt
               THEN [task EXCEPT !.pc = "waiting", !.log = logged]
               ELSE IF UseFallback(task)
               THEN [task EXCEPT !.model = "fallback", !.attempt = 1, !.log = logged,
                                 !.seen = Counters(llm)]
               ELSE [task EXCEPT !.pc = "raised", !.log = logged]]
        /\ UNCHANGED <<llm, reported, engine_vars, fn_vars, cs_vars, unit_vars>>

\* The backoff sleep is over: the next attempt's request is issued.
retry(t) ==
    /\ tasks[t].pc = "waiting"
    /\ tasks' = [tasks EXCEPT ![t] = [@ EXCEPT !.pc = "calling", !.attempt = @ + 1,
                                                !.seen = Counters(llm)]]
    /\ UNCHANGED <<llm, reported, engine_vars, fn_vars, cs_vars, unit_vars>>

LLMNext ==
    \/ \E t \in Tasks : complete(t)
    \/ \E t \in Tasks : acompletion_returns(t)
    \/ \E t \in Tasks : acompletion_raises(t)
    \/ \E t \in Tasks : retry(t)

LLMSpec == LLMInit /\ [][LLMNext]_vars

\* -------------------------------------------------- filter_noise on its own

\* Longest list of comments handed to filter_noise.
MaxLen == 3

TitleX == {"sql", "injection", "risk"}
TitleY == {"unused", "variable", "name"}
TitleY2 == {"unused", "variable", "name", "here"}
TitleZ == {"sql", "injection", "slow", "query"}

\* The comments the lists are drawn from: same line, overlapping ranges, titles that
\* are equal, close (Y/Y2: 0.75), loosely related (X/Z: 0.4) or unrelated, another
\* file, equal and different (severity, confidence), one confidence below 0.7.
CommentPool ==
    {Comment("a.py", 10, BLOCKER, 9, TitleX),
     Comment("a.py", 10, WARNING, 8, TitleY),
     Comment("a.py", 20, SUGGESTION, 8, TitleY),
     Comment("a.py", 20, WARNING, 8, TitleY2),
     [Comment("a.py", 9, WARNING, 9, TitleZ) EXCEPT !.end_line = 11],
     Comment("a.py", 30, NITPICK, 7, TitleZ),
     Comment("b.py", 10, BLOCKER, 9, TitleX),
     Comment("a.py", 40, WARNING, 5, {}),
     Comment("a.py", 50, NITPICK, 9, {"leak"}),
     [Comment("a.py", 10, WARNING, 9, {"race"}) EXCEPT !.end_line = 10]}

\* The configs filter_noise is called with: the defaults, a stricter one, a cap of one.
FilterConfigs ==
    {FilterConfig,
     [confidence_threshold |-> 8, max_comments |-> 2, min_severity |-> WARNING],
     [confidence_threshold |-> 7, max_comments |-> 1, min_severity |-> NITPICK]}

FilterInit ==
    /\ EngineIdle
    /\ LLMIdle
    /\ ClassifyIdle
    /\ UnitsIdle
    /\ fn_comments \in BoundedSeq(CommentPool, MaxLen)
    /\ fn_config \in FilterConfigs
    /\ fn_result = [done |-> FALSE, comments |-> <<>>]

apply_filter_noise ==
    /\ ~fn_result.done
    /\ fn_result' = [done |-> TRUE, comments |-> filter_noise(fn_comments, fn_config)]
    /\ UNCHANGED <<fn_comments, fn_config, engine_vars, llm_vars, cs_vars, unit_vars>>

FilterNext == apply_filter_noise

FilterSpec == FilterInit /\ [][FilterNext]_vars

\* --------------------------------------------- classify_severity on its own

\* The keyword families the text "title body" can hit: _EXPLOITABLE_KEYWORDS and word
\* patterns, _SECURITY_SMELL_KEYWORDS, _STYLE_KEYWORDS, and the words that keep a text
\* from being style-only.
KeywordFamilies == {"exploitable", "smell", "style", "bug"}

Categories == {"bug", "security", "style"}

ClassifyInit ==
    /\ EngineIdle
    /\ LLMIdle
    /\ FilterIdle
    /\ UnitsIdle
    /\ \E cat \in Categories, kw \in SUBSET KeywordFamilies, sev \in NITPICK..BLOCKER,
          sug \in {<<>>, <<"x = 1">>}, ap \in {<<>>, <<"replace the call">>} :
          cs_comment = [Comment("a.py", 1, sev, 8, {"issue"}) EXCEPT
                            !.category = cat, !.kw = kw, !.body = "details",
                            !.suggestion = sug, !.agent_prompt = ap]
    /\ cs_result = [done |-> FALSE, comment |-> Comment("", 0, NITPICK, 0, {})]

apply_classify_severity ==
    /\ ~cs_result.done
    /\ cs_result' = [done |-> TRUE, comment |-> classify_severity(cs_comment)]
    /\ UNCHANGED <<cs_comment, engine_vars, llm_vars, fn_vars, unit_vars>>

ClassifyNext == apply_classify_severity

ClassifySpec == ClassifyInit /\ [][ClassifyNext]_vars

\* --------------------------------- convert_to_review_comments on its own

\* Longest existing_code an LLM comment quotes.
MaxCode == 2

\* title[:80]
title_limit == 80

\* Optional values: None, or the value in a one-element tuple.
None == <<>>
Some(x) == <<x>>

\* Truth value of an optional string: None and "" are falsy.
Truthy(o) == o # None /\ o[1] # <<>>

\* Text is a sequence of characters.
Whitespace == {" ", "\n"}

RECURSIVE lstrip(_)
lstrip(s) == IF s # <<>> /\ Head(s) \in Whitespace THEN lstrip(Tail(s)) ELSE s

RECURSIVE rstrip(_)
rstrip(s) ==
    IF s # <<>> /\ s[Len(s)] \in Whitespace THEN rstrip(SubSeq(s, 1, Len(s) - 1)) ELSE s

\* str.strip()
strip(s) == rstrip(lstrip(s))

\* p in t, for strings
IsSubstring(p, t) == \E i \in 0..(Len(t) - Len(p)) : SubSeq(t, i + 1, i + Len(p)) = p

\* "\n".join(h.content for h in file_diff.hunks)
RECURSIVE JoinHunks(_)
JoinHunks(hunks) ==
    IF hunks = <<>> THEN <<>>
    ELSE IF Len(hunks) = 1 THEN hunks[1]
    ELSE hunks[1] \o <<"\n">> \o JoinHunks(Tail(hunks))

extract_hunk_lines(file_diff) == JoinHunks(file_diff.hunks)

\* {f.path: extract_hunk_lines(f) for f in files}: a later file of the same path wins.
build_hunk_text_index(files) ==
    [p \in {files[k].path : k \in 1..Len(files)} |->
        LET last == CHOOSE k \in 1..Len(files) :
                        /\ files[k].path = p
                        /\ \A j \in (k + 1)..Len(files) : files[j].path # p
        IN  extract_hunk_lines(files[last])]

\* hunk_index.get(path, "")
hunk_text(hunk_index, path) ==
    IF path \in DOMAIN hunk_index THEN hunk_index[path] ELSE <<>>

\* Severity.from_str
from_str(value) ==
    CASE value \in {"blocker", "critical", "error"} -> BLOCKER
      [] value \in {"warning", "warn"} -> WARNING
      [] value \in {"suggestion", "suggest"} -> SUGGESTION
      [] value \in {"nitpick", "nit", "style"} -> NITPICK
      [] OTHER -> SUGGESTION

\* Mutant: the quoted code is looked up in the hunks of every file of the chunk.
quote_in_hunks_AnyFile(c, hunk_index) ==
    \E p \in DOMAIN hunk_index : IsSubstring(strip(c.existing_code), hunk_index[p])

\* c.existing_code.strip() in hunk_index.get(c.path, "")
quote_in_hunks(c, hunk_index) ==
    IsSubstring(strip(c.existing_code), hunk_text(hunk_index, c.path))

\* The four "continue" tests of the loop.
skipped(c, valid_paths, hunk_index) ==
    \/ valid_paths # None /\ c.path \notin valid_paths[1]
    \/ c.line < 1
    \/ Truthy(c.suggestion) /\ strip(c.body) = <<>>
    \/ /\ c.existing_code # <<>>
       /\ DOMAIN hunk_index # {}
       /\ ~quote_in_hunks(c, hunk_index)

\* Mutant: an end_line equal to line is kept.
end_line_of_NotBefore(c) == IF c.end_line # 0 /\ c.end_line >= c.line THEN c.end_line ELSE 0

\* c.end_line if c.end_line and c.end_line > c.line else None  (0 is None)
end_line_of(c) == IF c.end_line # 0 /\ c.end_line > c.line THEN c.end_line ELSE 0

\* The suggestion, cleared when it repeats the quoted code.
suggestion_of(c) ==
    IF /\ Truthy(c.suggestion)
       /\ c.existing_code # <<>>
       /\ strip(c.suggestion[1]) = strip(c.existing_code)
    THEN None ELSE c.suggestion

\* The ReviewComment built from an LLM comment.
ReviewCommentOf(c) ==
    [path |-> c.path, line |-> c.line, end_line |-> end_line_of(c),
     severity |-> from_str(c.severity), category |-> c.category,
     title |-> SubSeq(c.title, 1, Min({title_limit, Len(c.title)})),
     body |-> c.body, confidence |-> c.confidence,
     suggestion |-> suggestion_of(c), agent_prompt |-> c.agent_prompt]

convert_to_review_comments(response, valid_paths, diff_files) ==
    LET hunk_index == build_hunk_text_index(diff_files)
    IN  Flatten([k \in 1..Len(response) |->
                    IF skipped(response[k], valid_paths, hunk_index)
                    THEN <<>> ELSE <<ReviewCommentOf(response[k])>>])

\* Inputs: every combination of the fields the function looks at.
Codes == BoundedSeq({"a", "b", " "}, MaxCode)
Titles == {[i \in 1..n |-> "T"] : n \in {0, title_limit, title_limit + 1}}

LLMComment(path, line, end_line, title, body, suggestion, existing_code) ==
    [path |-> path, line |-> line, end_line |-> end_line, severity |-> "warning",
     category |-> "bug", title |-> title, body |-> body, confidence |-> 9,
     suggestion |-> suggestion, agent_prompt |-> None, existing_code |-> existing_code]

LLMComments ==
    {LLMComment(p, l, e, t, b, s, x) :
        p \in {"a.py", "b.py", "ghost.py"}, l \in {0, 1, 5}, e \in {0, 1, 5},
        t \in Titles, b \in {<<>>, <<" ">>, <<"x">>},
        s \in {None, Some(<<>>), Some(<<"a">>), Some(<<" ", "a">>)}, x \in Codes}

\* A second comment of the same response, on a line of its own.
Companions ==
    {LLMComment("a.py", 9, 0, <<"T">>, <<"x">>, None, <<>>),
     LLMComment("ghost.py", 9, 0, <<"T">>, <<"x">>, None, <<>>),
     [LLMComment("b.py", 9, 12, <<"T">>, <<"x">>, Some(<<"b">>), <<"b">>)
        EXCEPT !.severity = "unheard-of"]}

FileA == [path |-> "a.py", hunks |-> << <<"a", "b">>, <<"a">> >>]
FileB == [path |-> "b.py", hunks |-> << <<"b", "b">> >>]

ConvertInit ==
    /\ EngineIdle
    /\ LLMIdle
    /\ FilterIdle
    /\ ClassifyIdle
    /\ ChunkIdle
    /\ TruncateIdle
    /\ ProviderIdle
    /\ ExtIdle
    /\ cv_response \in {<<>>} \cup {<<c>> : c \in LLMComments}
                         \cup {<<c, d>> : c \in Companions, d \in Companions}
                         \cup {<<c, d>> : c \in {x \in LLMComments : x.existing_code = <<"a">>},
                                          d \in Companions}
    /\ cv_valid_paths \in {None, Some({"a.py", "b.py"})}
    /\ cv_diff_files \in {<<>>, <<FileA>>, <<FileA, FileB>>}
    /\ cv_result = [done |-> FALSE, comments |-> <<>>]

apply_convert_to_review_comments ==
    /\ ~cv_result.done
    /\ cv_result' = [done |-> TRUE,
                     comments |-> convert_to_review_comments(cv_response, cv_valid_paths,
                                                             cv_diff_files)]
    /\ UNCHANGED <<cv_response, cv_valid_paths, cv_diff_files, engine_vars, llm_vars,
                   fn_vars, cs_vars, ck_vars, td_vars, gh_vars, ext_vars>>

ConvertNext == apply_convert_to_review_comments

ConvertSpec == ConvertInit /\ [][ConvertNext]_vars

\* ------------------------------------------------------ chunk_files on its own

\* Longest list of files chunked.
MaxFiles == 3

\* Tokens reserved for the system prompt and the response.
prompt_overhead == 2000

\* Tokens counted per file besides its path and hunks.
file_overhead == 20

RECURSIVE Sum(_)
Sum(s) == IF s = <<>> THEN 0 ELSE Head(s) + Sum(Tail(s))

\* A hunk is given by the length of its content, a file by its path and hunks.
FileDiff(path, hunks) == [path |-> path, hunks |-> hunks]

\* _estimate_tokens: len(text) // 4
estimate_tokens(length) == length \div 4

\* _file_token_estimate
file_token_estimate(f) ==
    Len(f.path) \div 4 + file_overhead
        + Sum([k \in 1..Len(f.hunks) |-> estimate_tokens(f.hunks[k])])

\* len("\n".join(h.content for h in f.hunks))
joined_length(hunks) == IF hunks = <<>> THEN 0 ELSE Sum(hunks) + Len(hunks) - 1

\* LLMProvider.count_tokens on a text of the given length: litellm's counter (here a
\* tokenizer that spends one token on every three characters, rounded up), or
\* len(text) // 4 when the counter raises.
count_tokens(provider, length) ==
    IF provider = "fallback" THEN length \div 4 ELSE (length + 2) \div 3

\* The estimate chunk_files computes for a file.
estimate(f, provider) ==
    IF provider # "none" THEN count_tokens(provider, joined_length(f.hunks))
    ELSE file_token_estimate(f)

\* list.sort(key=est, reverse=True) is stable: e goes behind every entry that is not smaller.
InsertByEstimate(sorted, e) ==
    LET n == Cardinality({k \in 1..Len(sorted) : sorted[k].est >= e.est})
    IN  SubSeq(sorted, 1, n) \o <<e>> \o SubSeq(sorted, n + 1, Len(sorted))

RECURSIVE SortByEstimate(_)
SortByEstimate(s) ==
    IF s = <<>> THEN <<>>
    ELSE InsertByEstimate(SortByEstimate(SubSeq(s, 1, Len(s) - 1)), s[Len(s)])

\* The leading hunks _truncate_file keeps before the first one that does not fit.
RECURSIVE KeptHunks(_, _, _)
KeptHunks(hunks, tokens_used, max_tokens) ==
    IF hunks = <<>> \/ tokens_used + estimate_tokens(Head(hunks)) > max_tokens
    THEN <<>>
    ELSE <<Head(hunks)>>
            \o KeptHunks(Tail(hunks), tokens_used + estimate_tokens(Head(hunks)), max_tokens)

\* _truncate_file: trailing hunks dropped, the first hunk always kept.
truncate_file(f, max_tokens) ==
    LET kept_hunks == KeptHunks(f.hunks, file_overhead, max_tokens)
    IN  [f EXCEPT !.hunks = IF kept_hunks = <<>> /\ f.hunks # <<>>
                            THEN <<f.hunks[1]>> ELSE kept_hunks]

ReviewChunk(files, token_estimate) == [files |-> files, token_estimate |-> token_estimate]

\* Mutant: the chunk of an oversized file carries the file's own estimate.
PlaceFile_OversizedKeepsEstimate(chunks, e, available) ==
    IF e.est > available
    THEN Append(chunks, ReviewChunk(<<truncate_file(e.file, available)>>, e.est))
    ELSE LET room == {k \in 1..Len(chunks) : chunks[k].token_estimate + e.est <= available}
         IN  IF room = {}
             THEN Append(chunks, ReviewChunk(<<e.file>>, e.est))
             ELSE [chunks EXCEPT ![Min(room)] =
                      ReviewChunk(Append(@.files, e.file), @.token_estimate + e.est)]

\* One iteration of the placement loop.
PlaceFile(chunks, e, available) ==
    IF e.est > available
    THEN Append(chunks, ReviewChunk(<<truncate_file(e.file, available)>>, available))
    ELSE LET room == {k \in 1..Len(chunks) : chunks[k].token_estimate + e.est <= available}
         IN  IF room = {}
             THEN Append(chunks, ReviewChunk(<<e.file>>, e.est))
             ELSE [chunks EXCEPT ![Min(room)] =
                      ReviewChunk(Append(@.files, e.file), @.token_estimate + e.est)]

RECURSIVE PlaceAll(_, _, _)
PlaceAll(chunks, estimates, available) ==
    IF estimates = <<>> THEN chunks
    ELSE PlaceAll(PlaceFile(chunks, Head(estimates), available), Tail(estimates), available)

chunk_files(files, max_tokens, provider) ==
    IF files = <<>> THEN <<>>
    ELSE PlaceAll(<<>>,
                  SortByEstimate([k \in 1..Len(files) |->
                                     [file |-> files[k], est |-> estimate(files[k], provider)]]),
                  max_tokens - prompt_overhead)

\* Inputs: files of one hunk, of several hunks and of none (a pure rename), in every order.
FilePool ==
    {FileDiff("a.py", <<40>>), FileDiff("b.py", <<120>>),
     FileDiff("src/pkg/c.py", <<400, 40>>), FileDiff("d.py", <<>>),
     FileDiff("e.py", <<80, 200, 40>>)}

Distinct(s) == \A i, j \in 1..Len(s) : s[i].path = s[j].path => i = j

ChunkInit ==
    /\ EngineIdle
    /\ LLMIdle
    /\ FilterIdle
    /\ ClassifyIdle
    /\ ConvertIdle
    /\ TruncateIdle
    /\ ProviderIdle
    /\ ExtIdle
    /\ ck_files \in {s \in BoundedSeq(FilePool, MaxFiles) : Distinct(s)}
    /\ ck_max_tokens \in {1000, 2010, 2050, 2100, 2200}
    /\ ck_provider \in {"none", "fallback", "litellm"}
    /\ ck_result = [done |-> FALSE, chunks |-> <<>>]

apply_chunk_files ==
    /\ ~ck_result.done
    /\ ck_result' = [done |-> TRUE,
                     chunks |-> chunk_files(ck_files, ck_max_tokens, ck_provider)]
    /\ UNCHANGED <<ck_files, ck_max_tokens, ck_provider, engine_vars, llm_vars, fn_vars,
                   cs_vars, cv_vars, td_vars, gh_vars, ext_vars>>

ChunkNext == apply_chunk_files

ChunkSpec == ChunkInit /\ [][ChunkNext]_vars

\* -------------------------------------------- the max_diff_size cut on its own

\* Most file records in a diff, and the largest max_diff_size tried.
MaxRecords == 2
MaxCap == 8

Max(S) == CHOOSE x \in S : \A y \in S : y <= x

\* A diff is a sequence of lines: "D" opens a file record (the "diff --git" line with
\* its ---/+++ lines), "@1" and "@2" are hunk headers announcing one and two body lines,
\* "+" is a body line. Lengths are counted in lines.
HunkHeaders == {"@1", "@2"}
Announced(header) == IF header = "@1" THEN 1 ELSE 2

\* unidiff.PatchSet over the lines left: the files read so far and the number of body
\* lines the open hunk still lacks. A hunk that ends before the announced number of
\* lines is rejected ("Hunk is shorter than expected").
RECURSIVE PatchSet(_, _, _)
PatchSet(lines, files, lacking) ==
    IF lines = <<>> THEN [raised |-> lacking > 0, files |-> files]
    ELSE LET l == Head(lines)
         IN  IF l = "+"
             THEN PatchSet(Tail(lines), files, IF lacking > 0 THEN lacking - 1 ELSE 0)
             ELSE IF lacking > 0 THEN [raised |-> TRUE, files |-> files]
             ELSE IF l = "D" THEN PatchSet(Tail(lines), Append(files, <<>>), 0)
             ELSE PatchSet(Tail(lines),
                           [files EXCEPT ![Len(files)] = Append(@, Announced(l))],
                           Announced(l))

\* parse_diff: no file for blank text; DiffParseError when unidiff rejects the text.
parse_diff(diff_text) ==
    IF diff_text = <<>> THEN [raised |-> FALSE, files |-> <<>>]
    ELSE PatchSet(diff_text, <<>>, 0)

\* truncated.rfind("\ndiff --git "): the last record opening that follows another line.
last_boundary(truncated) ==
    LET found == {k \in 2..Len(truncated) : truncated[k] = "D"}
    IN  IF found = {} THEN -1 ELSE Max(found) - 1

\* The text _review_diff_internal goes on with.
enforce_max_diff_size(diff_text, max_diff_size) ==
    IF Len(diff_text) > max_diff_size
    THEN LET truncated == SubSeq(diff_text, 1, max_diff_size)
         IN  IF last_boundary(truncated) > 0
             THEN SubSeq(truncated, 1, last_boundary(truncated))
             ELSE truncated
    ELSE diff_text

\* Inputs: well-formed diffs of up to MaxRecords file records.
Records == {<<"D">>, <<"D", "@1", "+">>, <<"D", "@2", "+", "+">>,
            <<"D", "@1", "+", "@1", "+">>}

TruncateInit ==
    /\ EngineIdle
    /\ LLMIdle
    /\ FilterIdle
    /\ ClassifyIdle
    /\ ConvertIdle
    /\ ChunkIdle
    /\ ProviderIdle
    /\ ExtIdle
    /\ td_diff_text \in {Flatten(rs) : rs \in BoundedSeq(Records, MaxRecords)}
    /\ td_max_diff_size \in 1..MaxCap
    /\ td_result = [done |-> FALSE, raised |-> FALSE, reviewed |-> <<>>, files |-> <<>>]

\* _review_diff_internal: cut, parse, and review the files parsed (DiffParseError is not
\* caught on the way out).
review_diff ==
    /\ ~td_result.done
    /\ LET reviewed == enforce_max_diff_size(td_diff_text, td_max_diff_size)
           patch == parse_diff(reviewed)
       IN  td_result' = [done |-> TRUE, raised |-> patch.raised, reviewed |-> reviewed,
                         files |-> IF patch.raised THEN <<>> ELSE patch.files]
    /\ UNCHANGED <<td_diff_text, td_max_diff_size, engine_vars, llm_vars, fn_vars,
                   cs_vars, cv_vars, ck_vars, gh_vars, ext_vars>>

TruncateNext == review_diff

TruncateSpec == TruncateInit /\ [][TruncateNext]_vars

\* ---------------------------------------- one operation of the GitHub provider

\* stop_after_attempt(3) of the provider's retry decorators.
gh_stop_after_attempt == 3

ProviderOps == {"get_pr_info", "get_pr_diff", "get_file_content", "post_review",
                "post_comment", "find_bot_comment", "update_comment", "graphql_request"}

\* The client an operation talks to GitHub with.
ClientOf(op) ==
    IF op \in {"get_pr_diff", "get_file_content", "graphql_request"}
    THEN "httpx" ELSE "PyGithub"

\* What can go wrong in one attempt: the connection fails, GitHub answers 5xx, 401 or
\* 404, or (post_review) the pull request has no commit.
Causes(op) ==
    {"network", "http_5xx", "auth", "not_found"}
        \cup (IF op = "post_review" THEN {"no_commits"} ELSE {})

\* The exception an attempt raises: resp.raise_for_status() raises httpx.HTTPStatusError
\* for every error status, PyGithub raises a GithubException (BadCredentialsException,
\* UnknownObjectException, or the base class for 5xx).
RaisedBy(op, cause) ==
    CASE cause = "no_commits" -> "ProviderError"
      [] cause = "network" ->
            IF ClientOf(op) = "httpx" THEN "TransportError" ELSE "ConnectionError"
      [] OTHER ->
            IF ClientOf(op) = "httpx" THEN "HTTPStatusError" ELSE "GithubException"

\* _RETRYABLE
RETRYABLE == {"ConnectionError", "TimeoutError", "TransportError", "GithubException"}

\* retry_if_exception_type of the decorator on the operation's inner function.
RetriedOn(op) ==
    IF op = "graphql_request"
    THEN {"TransportError", "ConnectionError", "TimeoutError"}
    ELSE RETRYABLE

\* What the caller sees when tenacity re-raises class cls: the operations wrap everything
\* but ProviderError in ProviderError; _graphql_request has no wrapper of its own.
Surfaced(op, cls) == IF op = "graphql_request" THEN cls ELSE "ProviderError"

ProviderInit ==
    /\ EngineIdle
    /\ LLMIdle
    /\ FilterIdle
    /\ ClassifyIdle
    /\ ConvertIdle
    /\ ChunkIdle
    /\ TruncateIdle
    /\ ExtIdle
    /\ ProviderIdle

call_operation(op) ==
    /\ gh_call.pc = "idle"
    /\ gh_call' = [op |-> op, pc |-> "attempting"]
    /\ UNCHANGED <<gh_attempts, gh_outcome, engine_vars, llm_vars, fn_vars, cs_vars,
                   cv_vars, ck_vars, td_vars, ext_vars>>

attempt_returns ==
    /\ gh_call.pc = "attempting"
    /\ gh_attempts' = Append(gh_attempts, "ok")
    /\ gh_outcome' = "returned"
    /\ gh_call' = [gh_call EXCEPT !.pc = "done"]
    /\ UNCHANGED <<engine_vars, llm_vars, fn_vars, cs_vars, cv_vars, ck_vars, td_vars,
                   ext_vars>>

attempt_raises(cause) ==
    /\ gh_call.pc = "attempting"
    /\ cause \in Causes(gh_call.op)
    /\ gh_attempts' = Append(gh_attempts, cause)
    /\ LET cls == RaisedBy(gh_call.op, cause)
       IN  IF cls \in RetriedOn(gh_call.op) /\ Len(gh_attempts) + 1 < gh_stop_after_attempt
           THEN UNCHANGED <<gh_call, gh_outcome>>
           ELSE /\ gh_outcome' = Surfaced(gh_call.op, cls)
                /\ gh_call' = [gh_call EXCEPT !.pc = "done"]
    /\ UNCHANGED <<engine_vars, llm_vars, fn_vars, cs_vars, cv_vars, ck_vars, td_vars,
                   ext_vars>>

ProviderNext ==
    \/ \E op \in ProviderOps : call_operation(op)
    \/ attempt_returns
    \/ \E cause \in {"network", "http_5xx", "auth", "not_found", "no_commits"} :
          attempt_raises(cause)

ProviderSpec == ProviderInit /\ [][ProviderNext]_vars

\* ------------------------------------------------- review_pr under cancellation

\* The await review_pr is suspended in: none once the run is over, none in the review
\* step unless a walkthrough is generated, none in a completion call that raises before
\* it is awaited.
Suspended ==
    CASE pc = "done" -> FALSE
      [] pc = "review" -> diff.kind # "malformed" /\ HasFiles(diff) /\ self.walkthrough
      [] pc = "verify_llm" -> VerifyFixesArgs \subseteq CompleteParams
      [] OTHER -> TRUE

\* The provider or LLM operation awaited at pc.
SuspendedIn ==
    CASE pc = "verify_fixes" -> "get_unresolved_bot_threads"
      [] pc = "fetch_files" -> "get_file_content"
      [] pc = "verify_llm" -> "complete_verify"
      [] pc = "review" -> "complete_walkthrough"
      [] pc = "chunks" -> "complete_review"
      [] pc = "upsert_walkthrough" -> "find_bot_comment"
      [] OTHER -> pc

\* The try block of the engine the await at pc is in, or the step itself.
StepAt ==
    CASE pc \in {"verify_fixes", "fetch_files", "verify_llm"} -> "verify_fixes"
      [] pc = "review" -> "walkthrough"
      [] pc = "chunks" -> "chunk"
      [] pc \in {"upsert_walkthrough", "update_comment", "post_comment"} ->
            "upsert_walkthrough"
      [] OTHER -> pc

\* Does the retry policy around op try again after an exception of class kind?
\* _call_llm retries on Exception, the provider on its lists of classes.
RetryMatches(op, kind) ==
    IF op \in {"complete_verify", "complete_walkthrough", "complete_review"}
    THEN kind \in ExceptionClasses
    ELSE kind \in RetriedOn(IF op = "get_unresolved_bot_threads"
                            THEN "graphql_request" ELSE op)

\* What a write already handed to a worker thread does to the pull request if the
\* thread completes it.
WriteEffect(op) ==
    CASE op = "post_review" -> [pr EXCEPT !.reviews = @ + 1]
      [] op = "post_comment" ->
            [pr EXCEPT !.comments = Append(@, [id |-> Len(@) + 1, body |-> to_markdown(run)])]
      [] op = "update_comment" ->
            [pr EXCEPT !.comments =
                [k \in 1..Len(@) |->
                    IF @[k].id = existing_id
                    THEN [@[k] EXCEPT !.body = to_markdown(run)] ELSE @[k]]]
      [] OTHER -> pr

\* The task running review_pr is cancelled: asyncio.CancelledError, a BaseException, is
\* raised at the await the run is suspended in.
cancel ==
    /\ outcome = "running"
    /\ Suspended
    /\ UNCHANGED lib_vars
    /\ calls' = calls \o <<Call(SuspendedIn, <<>>), Call("cancelled", <<>>)>>
    /\ \E after \in {pr, WriteEffect(SuspendedIn)} :
          /\ pr' = after
          /\ wt_write' = IF after # pr /\ SuspendedIn \in {"post_comment", "update_comment"}
                         THEN SuspendedIn ELSE wt_write
    /\ IF RetryMatches(SuspendedIn, "CancelledError")
       THEN UNCHANGED <<pc, outcome, result, exc, failed, chunk_i, walkthrough,
                        combined_existing, chunk_log>>
       ELSE /\ failed' = failed \cup {StepAt}
            /\ IF Catches(StepAt, "CancelledError")
               THEN CASE StepAt = "walkthrough" ->
                            /\ EnterChunks(FALSE)
                            /\ UNCHANGED chunk_log
                      [] StepAt = "chunk" ->
                            /\ ChunkDone(all_comments)
                            /\ chunk_log' = Append(chunk_log, [kind |-> "CancelledError",
                                                               comments |-> <<>>])
                            /\ UNCHANGED <<walkthrough, combined_existing>>
                      [] OTHER ->
                            /\ Finish(StepAt, result, thread_decisions)
                            /\ UNCHANGED <<chunk_i, walkthrough, combined_existing,
                                           chunk_log>>
               ELSE /\ Escape(StepAt, "CancelledError")
                    /\ UNCHANGED <<chunk_i, walkthrough, combined_existing, chunk_log>>
    /\ UNCHANGED <<env, verify_locals, diff, all_comments, existing_id>>

CancelNext == Next \/ cancel

CancelSpec == Init /\ [][CancelNext]_vars

\* ------------------------------------------------------ expand_context on its own

\* Most hunks a file of the input holds.
MaxHunks == 3

\* A HunkInfo; content is a sequence of characters.
HunkInfo(source_start, source_length, target_start, target_length, content) ==
    [source_start |-> source_start, source_length |-> source_length,
     target_start |-> target_start, target_length |-> target_length, content |-> content]

\* sorted(..., key=target_start) is stable: h goes behind every hunk that does not
\* start later.
InsertByStart(sorted, h) ==
    LET n == Cardinality({k \in 1..Len(sorted) : sorted[k].target_start <= h.target_start})
    IN  SubSeq(sorted, 1, n) \o <<h>> \o SubSeq(sorted, n + 1, Len(sorted))

RECURSIVE SortByStart(_)
SortByStart(hunks) ==
    IF hunks = <<>> THEN <<>>
    ELSE InsertByStart(SortByStart(SubSeq(hunks, 1, Len(hunks) - 1)), hunks[Len(hunks)])

\* Mutant: the merged hunk ends where the later hunk ends.
merge_into_LaterEnd(prev, hunk) ==
    HunkInfo(prev.source_start, prev.source_length + hunk.source_length,
             prev.target_start,
             hunk.target_start + hunk.target_length - prev.target_start,
             prev.content \o <<"\n">> \o hunk.content)

\* The HunkInfo that replaces merged[-1] when hunk is merged into it.
merge_into(prev, hunk) ==
    LET new_end == Max({prev.target_start + prev.target_length,
                        hunk.target_start + hunk.target_length})
    IN  HunkInfo(prev.source_start, prev.source_length + hunk.source_length,
                 prev.target_start, new_end - prev.target_start,
                 prev.content \o <<"\n">> \o hunk.content)

\* hunk_start <= prev_end, both padded by context_lines.
overlaps(prev, hunk, context_lines) ==
    hunk.target_start - context_lines
        <= prev.target_start + prev.target_length + context_lines

\* The loop over sorted_hunks[1:], merged being the list built so far.
RECURSIVE MergeLoop(_, _, _)
MergeLoop(merged, rest, context_lines) ==
    IF rest = <<>> THEN merged
    ELSE LET prev == merged[Len(merged)]
             hunk == Head(rest)
         IN  IF overlaps(prev, hunk, context_lines)
             THEN MergeLoop([merged EXCEPT ![Len(merged)] = merge_into(prev, hunk)],
                            Tail(rest), context_lines)
             ELSE MergeLoop(Append(merged, hunk), Tail(rest), context_lines)

\* expand_context for one file.
expand_file(f, context_lines) ==
    IF Len(f.hunks) <= 1 THEN f
    ELSE LET sorted_hunks == SortByStart(f.hunks)
         IN  [f EXCEPT !.hunks = MergeLoop(<<Head(sorted_hunks)>>, Tail(sorted_hunks),
                                           context_lines)]

expand_context(files, context_lines) ==
    [k \in 1..Len(files) |-> expand_file(files[k], context_lines)]

\* Hunks the inputs are drawn from: near and far from each other, short and long,
\* one with a source range that differs from its target range.
HunkPool ==
    {HunkInfo(t, l, t, l, <<"h", ToString(t), ToString(l)>>) : t \in {1, 4, 9, 20}, l \in {1, 8}}
        \cup {HunkInfo(2, 0, 3, 2, <<"n">>)}

ExpandInit ==
    /\ EngineIdle
    /\ LLMIdle
    /\ FilterIdle
    /\ ClassifyIdle
    /\ ConvertIdle
    /\ ChunkIdle
    /\ TruncateIdle
    /\ ProviderIdle
    /\ VerifyIdle
    /\ WebhookIdle
    /\ RaceIdle
    /\ \E hs \in BoundedSeq(HunkPool, MaxHunks),
          tail \in {<<>>, <<FileDiff("b.py", <<HunkInfo(5, 3, 5, 3, <<"b">>)>>)>>} :
          ec_files = <<FileDiff("a.py", hs)>> \o tail
    /\ ec_context_lines \in {0, 1, 3}
    /\ ec_result = [done |-> FALSE, files |-> <<>>, again |-> <<>>]

apply_expand_context ==
    /\ ~ec_result.done
    /\ LET once == expand_context(ec_files, ec_context_lines)
       IN  ec_result' = [done |-> TRUE, files |-> once,
                         again |-> expand_context(once, ec_context_lines)]
    /\ UNCHANGED <<ec_files, ec_context_lines, engine_vars, llm_vars, fn_vars, cs_vars,
                   cv_vars, ck_vars, td_vars, gh_vars, vf_vars, wh_vars,
                   rc_vars>>

ExpandNext == apply_expand_context

ExpandSpec == ExpandInit /\ [][ExpandNext]_vars

\* ------------------- _resolve_verified_threads from the model's answer on

\* Most entries the "results" list of an answer holds.
MaxEntries == 2

\* A JSON value, as far as parse_verify_fixes_response looks at it: t is its type.
\* An entry of "results" is an object with an id (missing, a number or a string) and a
\* fixed (missing, true, false, the string "true" or the number 1), or not an object.
Entry(id, fixed) == [t |-> "object", id |-> id, fixed |-> fixed]
StrId(v) == [t |-> "string", v |-> v]

\* Mutant: any truthy "fixed" counts.
is_fixed_entry_Truthy(e) ==
    /\ e.t = "object"
    /\ e.fixed \in {"true", "string_true", "one"}
    /\ e.id.t = "string"

\* isinstance(entry, dict) and entry.get("fixed") is True and isinstance(entry.get("id"), str)
is_fixed_entry(e) ==
    /\ e.t = "object"
    /\ e.fixed = "true"
    /\ e.id.t = "string"

\* strip_code_fences: "" for None or empty text; the body of a ```json block wherever
\* it stands; else the body of a fence the text opens with; else the text itself (a
\* fence behind a preamble stays in the text, which is then no JSON).
strip_code_fences(raw) ==
    CASE raw.wrap = "None" -> [t |-> "empty"]
      [] raw.wrap \in {"bare", "json_fence", "preamble_json_fence", "plain_fence"} -> raw.doc
      [] raw.wrap = "preamble_plain_fence" -> [t |-> "garbage"]

\* json.loads: raises JSONDecodeError on text that is no JSON document.
loads(text) ==
    IF text.t \in {"empty", "garbage"}
    THEN [raised |-> "JSONDecodeError", data |-> text]
    ELSE [raised |-> "none", data |-> text]

\* parse_verify_fixes_response on the raw completion: [raised, ids]. data.get raises
\* AttributeError when the document is not an object; only JSONDecodeError and
\* TypeError are caught.
parse_verify_fixes_response_raw(raw) ==
    LET loaded == loads(strip_code_fences(raw))
        data == loaded.data
    IN  IF loaded.raised # "none" THEN [raised |-> "none", ids |-> <<>>]
        ELSE IF data.t # "object" THEN [raised |-> "AttributeError", ids |-> <<>>]
        ELSE IF data.results.t # "list" THEN [raised |-> "none", ids |-> <<>>]
        ELSE LET hits == SelectSeq(data.results.items, is_fixed_entry)
             IN  [raised |-> "none", ids |-> [k \in 1..Len(hits) |-> hits[k].id.v]]

\* ThreadDecision(thread_id, ..., fixed = thread_id in verified_set)
ThreadDecision(t, verified_set) == [thread_id |-> t, fixed |-> t \in verified_set]

\* What _resolve_verified_threads does once _verify_fixes has the raw completion:
\* [raised, verified_ids, decisions, remaining, resolve_calls].
resolve_verified_threads(ts, raw, dry_run) ==
    LET parsed == parse_verify_fixes_response_raw(raw)
        verified_ids == parsed.ids
        verified_set == Range(verified_ids)
    IN  IF parsed.raised # "none"
        THEN [raised |-> parsed.raised, verified_ids |-> <<>>, decisions |-> <<>>,
              remaining |-> <<>>, resolve_calls |-> <<>>]
        ELSE [raised |-> "none",
              verified_ids |-> verified_ids,
              decisions |-> [k \in 1..Len(ts) |-> ThreadDecision(ts[k], verified_set)],
              remaining |-> SelectSeq(ts, LAMBDA t : t \notin verified_set),
              resolve_calls |-> IF verified_ids # <<>> /\ ~dry_run
                                THEN <<verified_ids>> ELSE <<>>]

\* Entries an answer is made of.
EntryPool ==
    {Entry(StrId(v), f) : v \in {"T1", "T2", "X9"},
                          f \in {"true", "false", "missing", "string_true", "one"}}
        \cup {Entry([t |-> "missing"], "true"), Entry([t |-> "number"], "true"),
              [t |-> "string"]}

\* JSON documents an answer can hold.
Documents ==
    {[t |-> k] : k \in {"garbage", "array", "number", "string", "null"}}
        \cup {[t |-> "object", results |-> [t |-> k]] : k \in {"missing", "string"}}
        \cup {[t |-> "object", results |-> [t |-> "list", items |-> s]] :
                 s \in BoundedSeq(EntryPool, MaxEntries)}

RawResponses ==
    {[wrap |-> "None", doc |-> [t |-> "garbage"]]}
        \cup {[wrap |-> w, doc |-> d] :
                 w \in {"bare", "json_fence", "preamble_json_fence", "plain_fence",
                        "preamble_plain_fence"},
                 d \in Documents}

VerifyInit ==
    /\ EngineIdle
    /\ LLMIdle
    /\ FilterIdle
    /\ ClassifyIdle
    /\ ConvertIdle
    /\ ChunkIdle
    /\ TruncateIdle
    /\ ProviderIdle
    /\ ExpandIdle
    /\ WebhookIdle
    /\ RaceIdle
    /\ vf_threads \in {<<"T1">>, <<"T1", "T2">>, <<"T2", "T1">>}
    /\ vf_raw \in RawResponses
    /\ vf_dry_run \in BOOLEAN
    /\ vf_result = NoVerifyResult

\* verified_ids = await self._verify_fixes(file_groups) and the rest of the function,
\* with resolve_threads resolving some of the threads it was given or raising.
resolve_after_completion ==
    /\ ~vf_result.done
    /\ LET r == resolve_verified_threads(vf_threads, vf_raw, vf_dry_run)
           base == [done |-> TRUE, raised |-> r.raised, verified_ids |-> r.verified_ids,
                    decisions |-> r.decisions, remaining |-> r.remaining,
                    resolve_calls |-> r.resolve_calls, resolved |-> {}]
       IN  IF r.resolve_calls = <<>>
           THEN vf_result' = base
           ELSE \/ \E ok \in SUBSET (Range(r.verified_ids) \cap Range(vf_threads)) :
                      vf_result' = [base EXCEPT !.resolved = ok]
                \/ vf_result' = [base EXCEPT !.raised = "ProviderError",
                                             !.decisions = <<>>, !.remaining = <<>>]
    /\ UNCHANGED <<vf_threads, vf_raw, vf_dry_run, engine_vars, llm_vars, fn_vars, cs_vars,
                   cv_vars, ck_vars, td_vars, gh_vars, ec_vars, wh_vars,
                   rc_vars>>

VerifyNext == resolve_after_completion

VerifySpec == VerifyInit /\ [][VerifyNext]_vars

\* ------------------------------------------------------- the webhook endpoint

\* Deliveries GitHub makes on behalf of users (the bot's own posts come on top).
MaxDeliveries == 2

webhook_secret == "s3cret"
\* f"{bot_name}[bot]" for bot_name "mira", and the mention f"@{bot_name}".
bot_login == "mira[bot]"

PR_ACTIONS == {"opened", "synchronize", "reopened"}

\* The X-Hub-Signature-256 header: the scheme prefix, and the key and the bytes the
\* digest was computed with. hmac.new(secret, payload_bytes).hexdigest() equals the digest
\* of the header only for the same key over the same bytes.
Signature(scheme, key, over) == [scheme |-> scheme, key |-> key, over |-> over]

\* _verify_signature
verify_signature(payload_id, header, secret) ==
    /\ header.scheme = "sha256="
    /\ header.key = secret
    /\ header.over = payload_id

\* A request: the event header, the signature header and what the handler reads of the
\* JSON body (id names the bytes of the body).
Request(id, event, action, sender, user, mention, is_pr, sig) ==
    [id |-> id, event |-> event, action |-> action, sender |-> sender, user |-> user,
     mention |-> mention, is_pr |-> is_pr, signature |-> sig]

WebhookResponse(status, body, handler) == [status |-> status, body |-> body, handler |-> handler]

\* Mutant: comments written by the bot are handled like anyone's.
is_self_Never(login) == FALSE

\* login == f"{bot_name}[bot]"
is_self(login) == login = bot_login

\* The /webhook route: the response, and the handler given to background_tasks.add_task.
webhook(req) ==
    IF ~verify_signature(req.id, req.signature, webhook_secret)
    THEN WebhookResponse(401, "invalid signature", "none")
    ELSE IF req.event = "pull_request" /\ req.action \in PR_ACTIONS
    THEN IF is_self(req.sender)
         THEN WebhookResponse(200, "ignored", "none")
         ELSE WebhookResponse(200, "processing", "handle_pull_request")
    ELSE IF req.event = "issue_comment" /\ req.action = "created" /\ is_self(req.user)
    THEN WebhookResponse(200, "ignored", "none")
    ELSE IF req.event = "issue_comment" /\ req.action = "created" /\ req.is_pr /\ req.mention
    THEN WebhookResponse(200, "processing", "handle_comment")
    ELSE IF req.event = "pull_request_review_comment" /\ req.action = "created"
            /\ is_self(req.user)
    THEN WebhookResponse(200, "ignored", "none")
    ELSE IF req.event = "pull_request_review_comment" /\ req.action = "created" /\ req.mention
    THEN WebhookResponse(200, "processing", "handle_thread_reject")
    ELSE WebhookResponse(200, "ignored", "none")

Logins == {"alice", "mira", bot_login}

GoodSignature(id) == Signature("sha256=", webhook_secret, id)

\* Signature headers a request can carry: GitHub's, none, one without the scheme, one
\* made with another key, one made over other bytes.
Signatures(id) ==
    {GoodSignature(id), Signature("", "", ""), Signature("sha1=", webhook_secret, id),
     Signature("sha256=", "guess", id), Signature("sha256=", webhook_secret, "other")}

\* Bodies of the deliveries made for users and strangers.
Payloads ==
    {[event |-> "pull_request", action |-> a, sender |-> l, user |-> "", mention |-> FALSE,
      is_pr |-> TRUE] : a \in {"opened", "closed"}, l \in Logins}
      \cup {[event |-> e, action |-> a, sender |-> l, user |-> l, mention |-> m, is_pr |-> p] :
               e \in {"issue_comment"}, a \in {"created", "edited"}, l \in Logins,
               m \in BOOLEAN, p \in BOOLEAN}
      \cup {[event |-> "pull_request_review_comment", action |-> a, sender |-> l, user |-> l,
             mention |-> m, is_pr |-> TRUE] : a \in {"created"}, l \in Logins, m \in BOOLEAN}
      \cup {[event |-> "push", action |-> "", sender |-> l, user |-> "", mention |-> FALSE,
             is_pr |-> FALSE] : l \in {"alice"}}

\* What GitHub delivers after a handler's run posted as the bot: the walkthrough comment
\* (created or edited), a review comment, a resolved thread. The bot's texts may hold
\* its own mention.
BotPosts ==
    {[event |-> "issue_comment", action |-> a, sender |-> bot_login, user |-> bot_login,
      mention |-> TRUE, is_pr |-> TRUE] : a \in {"created", "edited"}}
      \cup {[event |-> "pull_request_review_comment", action |-> "created",
             sender |-> bot_login, user |-> bot_login, mention |-> TRUE, is_pr |-> TRUE],
            [event |-> "pull_request_review_thread", action |-> "resolved",
             sender |-> bot_login, user |-> "", mention |-> FALSE, is_pr |-> TRUE]}

AsRequest(p, id, sig) ==
    Request(id, p.event, p.action, p.sender, p.user, p.mention, p.is_pr, sig)

WebhookInit ==
    /\ EngineIdle
    /\ LLMIdle
    /\ FilterIdle
    /\ ClassifyIdle
    /\ ConvertIdle
    /\ ChunkIdle
    /\ TruncateIdle
    /\ ProviderIdle
    /\ ExpandIdle
    /\ VerifyIdle
    /\ WebhookIdle
    /\ RaceIdle

\* A delivery arrives from outside: GitHub's, or anyone's who knows the URL.
deliver ==
    /\ wh_inbox = <<>>
    /\ wh_counts.delivered < MaxDeliveries
    /\ \E p \in Payloads : \E sig \in Signatures("body") :
          wh_inbox' = <<AsRequest(p, "body", sig)>>
    /\ wh_counts' = [wh_counts EXCEPT !.delivered = @ + 1]
    /\ UNCHANGED <<wh_last, wh_tasks, engine_vars, llm_vars, fn_vars, cs_vars, cv_vars,
                   ck_vars, td_vars, gh_vars, ec_vars, vf_vars, rc_vars>>

\* The route answers the oldest request waiting.
handle_request ==
    /\ wh_inbox # <<>>
    /\ LET req == Head(wh_inbox)
           resp == webhook(req)
       IN  /\ wh_last' = [handled |-> TRUE, req |-> req, resp |-> resp]
           /\ wh_tasks' = IF resp.handler = "none" THEN wh_tasks
                          ELSE Append(wh_tasks, resp.handler)
           /\ wh_counts' = IF resp.handler = "none" THEN wh_counts
                           ELSE [wh_counts EXCEPT !.scheduled = @ + 1]
    /\ wh_inbox' = Tail(wh_inbox)
    /\ UNCHANGED <<engine_vars, llm_vars, fn_vars, cs_vars, cv_vars, ck_vars, td_vars,
                   gh_vars, ec_vars, vf_vars, rc_vars>>

\* A scheduled handler runs and posts as the bot; GitHub delivers the event of the post.
run_handler ==
    /\ wh_tasks # <<>>
    /\ wh_tasks' = Tail(wh_tasks)
    /\ \E p \in BotPosts :
          wh_inbox' = Append(wh_inbox, AsRequest(p, "post", GoodSignature("post")))
    /\ wh_counts' = [wh_counts EXCEPT !.ran = @ + 1]
    /\ UNCHANGED <<wh_last, engine_vars, llm_vars, fn_vars, cs_vars, cv_vars, ck_vars,
                   td_vars, gh_vars, ec_vars, vf_vars, rc_vars>>

WebhookNext ==
    \/ deliver
    \/ handle_request
    \/ run_handler

WebhookSpec == WebhookInit /\ [][WebhookNext]_vars

\* ------------------------------- review_pr runs in flight on one pull request

\* Background tasks the webhook scheduled for one pull request, each running
\* handle_pull_request with a ReviewEngine of its own.
MaxConcurrent == 2

InFlight == 1..MaxConcurrent

IssueComment(id, body) == [id |-> id, body |-> body]

\* GitHubProvider.find_bot_comment over the comments of the pull request: the id of the
\* first comment whose body holds the marker, 0 for None.
first_marked(comments, marker) ==
    LET hits == {k \in 1..Len(comments) : Contains(comments[k].body, marker)}
    IN  IF hits = {} THEN 0 ELSE comments[Min(hits)].id

\* The comments of the pull request before the tasks start: none, one of a user, a
\* walkthrough of an earlier review.
CommentsBefore ==
    {<<>>,
     <<IssueComment(1, <<"looks good to me">>)>>,
     <<IssueComment(1, <<"looks good to me">>), IssueComment(2, to_markdown(0))>>}

RaceInit ==
    /\ EngineIdle
    /\ LLMIdle
    /\ FilterIdle
    /\ ClassifyIdle
    /\ ConvertIdle
    /\ ChunkIdle
    /\ TruncateIdle
    /\ ProviderIdle
    /\ ExpandIdle
    /\ VerifyIdle
    /\ WebhookIdle
    /\ rc_comments \in CommentsBefore
    /\ rc_pc = [t \in InFlight |-> "scheduled"]
    /\ rc_existing_id = [t \in InFlight |-> 0]
    /\ rc_write = [t \in InFlight |-> "none"]
    /\ rc_reviews = 0

RaceFrame ==
    UNCHANGED <<engine_vars, llm_vars, fn_vars, cs_vars, cv_vars, ck_vars, td_vars, gh_vars,
                ec_vars, vf_vars, wh_vars>>

\* handle_pull_request up to the end of _review_diff_internal: the token, the engine,
\* get_pr_info, get_pr_diff, the verification of fixes and the review of the chunks.
\* The result has a walkthrough or not; any of the awaits may raise.
task_review(t) ==
    /\ rc_pc[t] = "scheduled"
    /\ \E next \in {"find_bot_comment", "post_review", "raised"} :
          rc_pc' = [rc_pc EXCEPT ![t] = next]
    /\ UNCHANGED <<rc_comments, rc_existing_id, rc_write, rc_reviews>>
    /\ RaceFrame

\* existing_id = await self.provider.find_bot_comment(pr_info, WALKTHROUGH_MARKER)
task_find_bot_comment(t) ==
    /\ rc_pc[t] = "find_bot_comment"
    /\ \/ LET found == first_marked(rc_comments, WALKTHROUGH_MARKER)
          IN  /\ rc_existing_id' = [rc_existing_id EXCEPT ![t] = found]
              /\ rc_pc' = [rc_pc EXCEPT ![t] =
                              IF found # 0 THEN "update_comment" ELSE "post_comment"]
       \/ /\ rc_pc' = [rc_pc EXCEPT ![t] = "post_review"]
          /\ UNCHANGED rc_existing_id
    /\ UNCHANGED <<rc_comments, rc_write, rc_reviews>>
    /\ RaceFrame

\* await self.provider.update_comment(pr_info, existing_id, markdown)
task_update_comment(t) ==
    /\ rc_pc[t] = "update_comment"
    /\ \/ /\ rc_comments' =
                [k \in 1..Len(rc_comments) |->
                    IF rc_comments[k].id = rc_existing_id[t]
                    THEN IssueComment(rc_comments[k].id, to_markdown(t))
                    ELSE rc_comments[k]]
          /\ rc_write' = [rc_write EXCEPT ![t] = "update_comment"]
       \/ UNCHANGED <<rc_comments, rc_write>>
    /\ rc_pc' = [rc_pc EXCEPT ![t] = "post_review"]
    /\ UNCHANGED <<rc_existing_id, rc_reviews>>
    /\ RaceFrame

\* await self.provider.post_comment(pr_info, markdown)
task_post_comment(t) ==
    /\ rc_pc[t] = "post_comment"
    /\ \/ /\ rc_comments' =
                Append(rc_comments, IssueComment(Len(rc_comments) + 1, to_markdown(t)))
          /\ rc_write' = [rc_write EXCEPT ![t] = "post_comment"]
       \/ UNCHANGED <<rc_comments, rc_write>>
    /\ rc_pc' = [rc_pc EXCEPT ![t] = "post_review"]
    /\ UNCHANGED <<rc_existing_id, rc_reviews>>
    /\ RaceFrame

\* await self.provider.post_review(pr_info, result), skipped without comments; then
\* review_pr returns, or the provider's exception leaves it.
task_post_review(t) ==
    /\ rc_pc[t] = "post_review"
    /\ \/ /\ rc_reviews' = rc_reviews + 1
          /\ rc_pc' = [rc_pc EXCEPT ![t] = "returned"]
       \/ /\ rc_reviews' = rc_reviews
          /\ rc_pc' = [rc_pc EXCEPT ![t] = "returned"]
       \/ /\ rc_reviews' = rc_reviews
          /\ rc_pc' = [rc_pc EXCEPT ![t] = "raised"]
    /\ UNCHANGED <<rc_comments, rc_existing_id, rc_write>>
    /\ RaceFrame

\* The event loop resumes any task that is waiting at one of its awaits.
RaceNext ==
    \/ \E t \in InFlight : task_review(t)
    \/ \E t \in InFlight : task_find_bot_comment(t)
    \/ \E t \in InFlight : task_update_comment(t)
    \/ \E t \in InFlight : task_post_comment(t)
    \/ \E t \in InFlight : task_post_review(t)

RaceSpec == RaceInit /\ [][RaceNext]_vars

\* ------------------------------------------------------------------ claims

WriteOps == {"post_review", "post_comment", "update_comment", "resolve_threads"}
WalkthroughWrites == {"post_comment", "update_comment"}
VerifyFixesOps == {"get_unresolved_bot_threads", "get_file_content",
                   "complete_verify", "resolve_threads"}

CallsOf(op) == SelectSeq(calls, LAMBDA c : c.op = op)

C2_ResolveFixedCarryRest ==
    (/\ ~self.dry_run
     /\ threads # <<>>
     /\ PathsToFetch = {}
     /\ CallsOf("complete_review") # <<>>) =>
        LET F == Range(threads) \cap llm_fixed
            resolves == CallsOf("resolve_threads")
        IN  /\ IF F = {} THEN resolves = <<>>
               ELSE /\ Len(resolves) = 1
                    /\ Range(resolves[1].ids) = F
                    /\ Len(resolves[1].ids) = Cardinality(F)
            /\ CallsOf("complete_review")[1].ids =
                   SelectSeq(threads, LAMBDA t : t \notin F)

C4_WalkthroughBeforeReview ==
    \A i, j \in 1..Len(calls) :
        (calls[i].op \in WalkthroughWrites /\ calls[j].op = "post_review") => i < j

C4_Witness ==
    /\ wt_write # "none"
    /\ "post_review" \in Ops(calls)
    /\ outcome = "returned"

MarkerComments ==
    {k \in 1..Len(pr.comments) : Contains(pr.comments[k].body, WALKTHROUGH_MARKER)}

\* C5: over runs made in sequence on one PR there is never more than one walkthrough
\* comment: once a run created it with post_comment, no later run calls post_comment
\* again (a later run that writes the walkthrough updates it in place).
C5_OneWalkthroughComment ==
    LET h == Append(wt_history, wt_write)
    IN  /\ Len(pr.comments) <= 1
        /\ Cardinality(MarkerComments) = Len(pr.comments)
        /\ \A q, r \in 1..Len(h) : (q < r /\ h[q] = "post_comment") => h[r] # "post_comment"

\* The first run created the comment, the second run found and updated it.
C5_Witness ==
    /\ wt_history = <<"post_comment">>
    /\ wt_write = "update_comment"
    /\ existing_id = pr.comments[1].id
    /\ Len(pr.comments) = 1
    /\ outcome = "returned"

\* C6: an exception raised in any step of verify-fixes does not leave review_pr: the run
\* goes on to fetch the diff with no unresolved thread, no decision and nothing resolved,
\* the review prompts carry no thread of the PR, and a returned result has no decisions.
C6_VerifyFixesFailureSwallowed ==
    "verify_fixes" \in failed =>
        /\ exc.step # "verify_fixes"
        /\ unresolved_threads = <<>>
        /\ thread_decisions = <<>>
        /\ pc = "get_pr_diff" \/ "get_pr_diff" \in Ops(calls)
        /\ \A k \in 1..Len(calls) :
              calls[k].op = "complete_review" => Range(calls[k].ids) \cap ThreadIds = {}
        /\ outcome = "returned" => result.thread_decisions = <<>>

\* Verify-fixes failed after the threads were fetched and the run still returned comments.
C6_Witness ==
    /\ "verify_fixes" \in failed
    /\ threads # <<>>
    /\ outcome = "returned"
    /\ result.comments # <<>>

\* C7: a chunk whose completion failed with LLMError is only skipped: the failure does
\* not end the run, no run ends with an LLMError raised out of the chunk loop.
C7_LLMErrorSkipsChunk ==
    \A k \in 1..Len(chunk_log) :
        chunk_log[k].kind = "LLMError" => ~(outcome = "raised" /\ exc.step = "chunk")

\* The second of two chunks failed with LLMError after the first one had a comment
\* accepted; the run raised and returned no result.
C7_Witness ==
    /\ Len(chunk_log) = 2
    /\ chunk_log[1].comments # <<>>
    /\ chunk_log[2].kind = "LLMError"
    /\ outcome = "raised"
    /\ exc = [step |-> "chunk", kind |-> "LLMError"]
    /\ result = NoResult

\* The result of the loop: classify, then filter.
FinalComments(comments) ==
    filter_noise([k \in 1..Len(comments) |-> classify_severity(comments[k])], FilterConfig)

\* C8: a chunk whose response does not parse is the only thing skipped: the accumulated
\* comments are exactly those accepted from the chunks that parsed, no ResponseParseError
\* leaves the run, and after such a chunk the loop goes on to the next chunk or, after
\* the last one, builds the result from the accumulated comments.
C8_ParseErrorSkipsOnlyThatChunk ==
    /\ all_comments = Flatten([k \in 1..Len(chunk_log) |-> chunk_log[k].comments])
    /\ exc.kind # "ResponseParseError"
    /\ \A k \in 1..Len(chunk_log) :
          chunk_log[k].kind = "ResponseParseError" =>
              \/ Len(chunk_log) > k
              \/ pc = "chunks" /\ chunk_i = k + 1
              \/ /\ k = diff.chunks
                 /\ outcome # "raised" \/ exc.step = "post_review"
                 /\ result.comments = FinalComments(all_comments)
                 /\ result.reviewed_files = diff.chunks

\* The first chunk did not parse, the second one did and its comment is in the result.
C8_Witness ==
    /\ Len(chunk_log) = 2
    /\ chunk_log[1].kind = "ResponseParseError"
    /\ chunk_log[2].comments # <<>>
    /\ outcome = "returned"
    /\ result.comments = chunk_log[2].comments

\* C9: when walkthrough generation fails, no walkthrough is kept, the failure does not
\* leave the run, the chunk loop is entered, and a returned result has walkthrough None
\* and covers every chunk.
C9_WalkthroughFailureDropped ==
    "walkthrough" \in failed =>
        /\ walkthrough = FALSE
        /\ exc.step # "walkthrough"
        /\ pc = "chunks" \/ chunk_log # <<>>
        /\ Ops(calls) \cap WalkthroughWrites = {}
        /\ outcome = "returned" =>
              /\ ~result.walkthrough
              /\ result.reviewed_files = diff.chunks
              /\ Len(chunk_log) = diff.chunks

C9_Witness ==
    /\ "walkthrough" \in failed
    /\ outcome = "returned"
    /\ ~result.walkthrough
    /\ result.comments # <<>>

\* C10: when the walkthrough upsert fails, the failure does not leave the run and, the
\* final comment list being non-empty, post_review is the next call or has been made.
C10_UpsertFailureStillPosts ==
    "upsert_walkthrough" \in failed =>
        /\ exc.step # "upsert_walkthrough"
        /\ result.comments # <<>> => pc = "post_review" \/ "post_review" \in Ops(calls)
        /\ result.comments = <<>> => outcome = "returned"

C10_Witness ==
    /\ "upsert_walkthrough" \in failed
    /\ "post_review" \in Ops(calls)
    /\ outcome = "returned"
    /\ pr.reviews = 1

LLMOps == {"complete_verify", "complete_walkthrough", "complete_review"}

Attempts(t, m) == SelectSeq(tasks[t].log, LAMBDA e : e.model = m)

\* C12: in every complete() call the primary model is attempted at most 3 times and the
\* fallback at most 3 times; the fallback is attempted only when it is configured and
\* only after 3 failed primary attempts; a successful attempt is the last attempt of the
\* call and makes it return; the call raises LLMError exactly when every attempt it is
\* allowed (3, or 3 + 3 with a fallback) was made and failed.
C12_RetryThenFallback ==
    \A t \in DOMAIN tasks :
        LET log == tasks[t].log
            p == Len(Attempts(t, "primary"))
            f == Len(Attempts(t, "fallback"))
        IN  /\ p <= 3
            /\ f <= 3
            /\ \A i \in 1..Len(log) :
                  log[i].ok => i = Len(log) /\ tasks[t].pc = "returned"
            /\ \A i, j \in 1..Len(log) :
                  (log[i].model = "fallback" /\ log[j].model = "primary") =>
                      j < i /\ ~log[j].ok
            /\ (f > 0 \/ tasks[t].model = "fallback") => (llm.fallback_model /\ p = 3)
            /\ tasks[t].pc = "returned" => (log # <<>> /\ log[Len(log)].ok)
            /\ tasks[t].pc = "raised" <=>
                  /\ \A i \in 1..Len(log) : ~log[i].ok
                  /\ p = 3
                  /\ llm.fallback_model => f = 3

\* One call returned on the second attempt of the fallback model, another raised after
\* three failures of each model.
C12_Witness ==
    /\ tasks # <<>>
    /\ \E t \in DOMAIN tasks :
          /\ tasks[t].pc = "returned"
          /\ Len(Attempts(t, "primary")) = 3
          /\ Len(Attempts(t, "fallback")) = 2
    /\ \E t \in DOMAIN tasks :
          /\ tasks[t].pc = "raised"
          /\ Len(tasks[t].log) = 6

RECURSIVE SumUsage(_)
SumUsage(S) ==
    IF S = {} THEN NoUsage
    ELSE LET t == CHOOSE x \in S : TRUE
         IN  AddUsage(tasks[t].usage, SumUsage(S \ {t}))

\* C14: however the complete() calls on one client interleave at their awaits, once all
\* of them have finished the counters equal the sum of the usages of their responses.
C14_NoLostUpdate ==
    (tasks # <<>> /\ \A t \in DOMAIN tasks : tasks[t].pc \in {"returned", "raised"}) =>
        Counters(llm) = SumUsage(DOMAIN tasks)

\* Every call issued its first request before any response arrived, and each response
\* carried usage: the calls were all in flight at once.
C14_Witness ==
    /\ tasks # <<>>
    /\ \A t \in DOMAIN tasks :
          /\ tasks[t].pc = "returned"
          /\ Len(tasks[t].log) = 1
          /\ tasks[t].seen = NoUsage
          /\ tasks[t].usage # NoUsage

\* Vocabulary of the filter_noise claims.
Eligible ==
    {c \in Range(fn_comments) : /\ c.confidence >= fn_config.confidence_threshold
                                /\ c.severity >= fn_config.min_severity}
Retained == Range(fn_result.comments)
\* 10 * Jaccard similarity of the titles is at least n.
TitleSim(a, b, n) ==
    /\ a.title # {}
    /\ b.title # {}
    /\ 10 * Cardinality(a.title \cap b.title) >= n * Cardinality(a.title \cup b.title)
LastLine(c) == IF c.end_line = 0 THEN c.line ELSE c.end_line
Related(a, b) ==
    /\ a.path = b.path
    /\ \/ a.line = b.line /\ LastLine(a) = LastLine(b)
       \/ a.line <= LastLine(b) /\ b.line <= LastLine(a) /\ TitleSim(a, b, 2)
       \/ TitleSim(a, b, 6)
NotWeaker(a, b) ==
    \/ a.severity > b.severity
    \/ a.severity = b.severity /\ a.confidence >= b.confidence
\* The cap did not cut the deduplicated list.
CapNotReached == Len(fn_result.comments) < fn_config.max_comments
Reorderings == {[k \in 1..Len(fn_comments) |-> fn_comments[f[k]]] :
                    f \in Permutations(1..Len(fn_comments))}

C16_ClusterKeepsStrongest ==
    (fn_result.done /\ CapNotReached) =>
        \A a, b \in Eligible :
            (Related(a, b) /\ a \in Retained /\ b \notin Retained) => NotWeaker(a, b)

\* C16 as amended: every comment dropped as a duplicate is a duplicate of a retained
\* comment that is not weaker; and when the duplicate relation is transitive on the
\* input, every cluster keeps exactly one member and that member is its strongest.
C16_DroppedForStrongerOnly ==
    (fn_result.done /\ CapNotReached) =>
        /\ \A b \in Eligible \ Retained :
              \E a \in Retained : Related(b, a) /\ NotWeaker(a, b)
        /\ (\A a, b, c \in Eligible : (Related(a, b) /\ Related(b, c)) => Related(a, c)) =>
              \A b \in Eligible :
                  /\ Cardinality({a \in Retained : Related(a, b)}) = 1
                  /\ \A a \in Retained : Related(a, b) => NotWeaker(a, b)

\* The weakest comment came first in the input and was dropped for a stronger duplicate
\* that came after it.
C16_Witness ==
    /\ fn_result.done
    /\ CapNotReached
    /\ Len(fn_comments) = 3
    /\ fn_comments[1] \in Eligible \ Retained
    /\ \E a \in Retained : Related(fn_comments[1], a) /\ ~NotWeaker(fn_comments[1], a)

DistinctKeys ==
    \A a, b \in Eligible :
        (a.severity = b.severity /\ a.confidence = b.confidence) => a = b

C18_SortedBySeverityThenConfidence ==
    fn_result.done =>
        LET out == fn_result.comments
        IN  \A i, j \in 1..Len(out) :
                i < j =>
                    \/ out[i].severity > out[j].severity
                    \/ /\ out[i].severity = out[j].severity
                       /\ out[i].confidence >= out[j].confidence

\* An unsorted input of three gives a result ordered by severity, then by confidence.
C18_Witness ==
    /\ fn_result.done
    /\ Len(fn_result.comments) = 3
    /\ fn_result.comments # fn_comments
    /\ fn_result.comments[1].severity > fn_result.comments[2].severity
    /\ fn_result.comments[2].severity = fn_result.comments[3].severity
    /\ fn_result.comments[2].confidence > fn_result.comments[3].confidence

\* C19: the result has at most max_comments comments, each an input comment with
\* confidence >= confidence_threshold and severity >= min_severity; it is the first
\* max_comments entries of the sorted, deduplicated list, so when it is shorter than
\* the cap every eligible input comment is in it or is a duplicate of one in it.
C19_CappedAfterDedup ==
    fn_result.done =>
        LET out == fn_result.comments
            uncapped == filter_noise(fn_comments,
                                     [fn_config EXCEPT !.max_comments = Len(fn_comments)])
        IN  /\ Len(out) <= fn_config.max_comments
            /\ Retained \subseteq Eligible
            /\ Len(out) = IF Len(uncapped) < fn_config.max_comments
                          THEN Len(uncapped) ELSE fn_config.max_comments
            /\ \A k \in 1..Len(out) : out[k] = uncapped[k]
            /\ CapNotReached =>
                  \A c \in Eligible : \E a \in Retained : a = c \/ Related(a, c)

\* The cap cut the list: three eligible comments, no two of them duplicates, cap of two.
C19_Witness ==
    /\ fn_result.done
    /\ fn_config.max_comments = 2
    /\ Len(fn_comments) = 3
    /\ Cardinality(Eligible) = 3
    /\ \A a, b \in Eligible : a # b => ~Related(a, b)
    /\ Len(fn_result.comments) = 2

KeptAs(c) == {r \in Range(cv_result.comments) : r.path = c.path /\ r.line = c.line}

\* The concatenated hunk contents of the file of diff_files at path ("" when there is none).
HunkContentsAt(path) ==
    LET at == {k \in 1..Len(cv_diff_files) : cv_diff_files[k].path = path}
    IN  IF at = {} THEN <<>> ELSE JoinHunks(cv_diff_files[CHOOSE k \in at : TRUE].hunks)

\* C21: every ReviewComment returned by convert_to_review_comments has its path in
\* valid_paths (when the caller passes the set), a line of at least 1, an end_line that is
\* unset or strictly greater than line, a title of at most 80 characters (the first 80 of a
\* longer one, otherwise the title as given) and, if it carries a suggestion, a body that
\* is not blank.
C21_AcceptedCommentsWellFormed ==
    cv_result.done =>
        /\ \A r \in Range(cv_result.comments) :
              /\ cv_valid_paths # None => r.path \in cv_valid_paths[1]
              /\ r.line >= 1
              /\ r.end_line = 0 \/ r.end_line > r.line
              /\ Len(r.title) <= title_limit
              /\ Truthy(r.suggestion) => strip(r.body) # <<>>
        /\ \A c \in Range(cv_response) : \A r \in KeptAs(c) :
              r.title = IF Len(c.title) > title_limit
                        THEN SubSeq(c.title, 1, title_limit) ELSE c.title

\* A comment with an 81-character title, an end_line after its line and a suggestion was
\* accepted against a set of valid paths, its title cut to 80.
C21_Witness ==
    /\ cv_result.done
    /\ cv_valid_paths # None
    /\ \E c \in Range(cv_response) : \E r \in KeptAs(c) :
          /\ Len(c.title) > title_limit
          /\ Len(r.title) = title_limit
          /\ r.end_line > r.line
          /\ Truthy(r.suggestion)

\* C22: when the files of the chunk are passed, a comment that quotes existing_code is
\* accepted only if the quote, stripped, occurs in the concatenated hunk contents of the
\* file at its path, so a comment quoting code that is not in that file's hunks is dropped;
\* and an accepted comment whose suggestion equals the quote (both stripped) comes out
\* with no suggestion.
C22_QuotedCodeComesFromTheDiff ==
    cv_result.done =>
        \A c \in Range(cv_response) :
            c.existing_code # <<>> =>
                /\ (cv_diff_files # <<>> /\ KeptAs(c) # {}) =>
                       IsSubstring(strip(c.existing_code), HunkContentsAt(c.path))
                /\ (Truthy(c.suggestion) /\ strip(c.suggestion[1]) = strip(c.existing_code)) =>
                       \A r \in KeptAs(c) : r.suggestion = None

\* Of two comments checked against the hunks of a.py only, the one quoting a.py was
\* accepted, its suggestion (the quote again) cleared, and the one quoting b.py was dropped.
C22_Witness ==
    /\ cv_result.done
    /\ cv_diff_files = <<FileA>>
    /\ Len(cv_response) = 2
    /\ Len(cv_result.comments) = 1
    /\ cv_response[1].path = "a.py"
    /\ strip(cv_response[1].existing_code) # <<>>
    /\ Truthy(cv_response[1].suggestion)
    /\ cv_result.comments[1].path = "a.py"
    /\ cv_result.comments[1].suggestion = None
    /\ cv_response[2].path = "b.py"
    /\ cv_response[2].existing_code # <<>>

\* The files of the returned chunks, chunk after chunk.
ChunkedFiles == Flatten([k \in 1..Len(ck_result.chunks) |-> ck_result.chunks[k].files])

\* max_tokens minus the prompt overhead.
Available == ck_max_tokens - prompt_overhead

Oversized(f) == estimate(f, ck_provider) > Available

IsPrefix(s, t) == Len(s) <= Len(t) /\ SubSeq(t, 1, Len(s)) = s

\* C23: the file lists of the chunks returned by chunk_files, concatenated, hold every
\* input file exactly once (none lost, none twice; a file whose estimate exceeds the
\* budget appears with trailing hunks dropped, every other file as given), and the
\* token_estimate of every chunk is at most max_tokens minus the 2000-token overhead: it
\* is the sum of the estimates of the chunk's files, except for a chunk opened for an
\* oversized, truncated file, which carries the budget itself.
C23_ChunksPartitionFilesWithinBudget ==
    ck_result.done =>
        /\ Len(ChunkedFiles) = Len(ck_files)
        /\ \A f \in Range(ck_files) :
              \E k \in 1..Len(ChunkedFiles) :
                 /\ ChunkedFiles[k].path = f.path
                 /\ \A j \in 1..Len(ChunkedFiles) : ChunkedFiles[j].path = f.path => j = k
                 /\ IF Oversized(f)
                    THEN /\ IsPrefix(ChunkedFiles[k].hunks, f.hunks)
                         /\ f.hunks # <<>> => ChunkedFiles[k].hunks # <<>>
                    ELSE ChunkedFiles[k] = f
        /\ \A c \in Range(ck_result.chunks) :
              /\ c.files # <<>>
              /\ c.token_estimate <= Available
              /\ LET first == CHOOSE f \in Range(ck_files) : f.path = c.files[1].path
                 IN  IF Oversized(first)
                     THEN c.token_estimate = Available
                     ELSE c.token_estimate =
                             Sum([k \in 1..Len(c.files) |-> estimate(c.files[k], ck_provider)])

\* Three files came back in two chunks: one opened for an oversized file that lost a
\* trailing hunk, one packing two files that fit together.
C23_Witness ==
    /\ ck_result.done
    /\ Len(ck_files) = 3
    /\ Len(ck_result.chunks) = 2
    /\ \E c \in Range(ck_result.chunks) : Len(c.files) = 2 /\ c.token_estimate < Available
    /\ \E c \in Range(ck_result.chunks) : \E f \in Range(ck_files) :
          /\ Len(c.files) = 1
          /\ c.files[1].path = f.path
          /\ Oversized(f)
          /\ Len(c.files[1].hunks) < Len(f.hunks)

\* The first max_diff_size lines of the diff hold the opening of a second or later record.
HasBoundary == last_boundary(SubSeq(td_diff_text, 1, td_max_diff_size)) > 0

\* C24: a diff longer than max_diff_size is reviewed as a prefix of at most max_diff_size
\* that ends where a file record begins, so that only whole records are parsed; when the
\* prefix holds no such boundary it is the diff cut at the cap; in both cases the review
\* completes without raising, on the files of the prefix.
C24_OversizedDiffCutAndReviewed ==
    (td_result.done /\ Len(td_diff_text) > td_max_diff_size) =>
        /\ IsPrefix(td_result.reviewed, td_diff_text)
        /\ Len(td_result.reviewed) <= td_max_diff_size
        /\ IF HasBoundary
           THEN td_diff_text[Len(td_result.reviewed) + 1] = "D"
           ELSE Len(td_result.reviewed) = td_max_diff_size
        /\ ~td_result.raised
        /\ Len(td_result.files) <= Len(parse_diff(td_diff_text).files)

\* A diff of one file record, longer than the cap, was cut inside its hunk and the review
\* raised DiffParseError.
C24_Witness ==
    /\ td_result.done
    /\ Len(td_diff_text) > td_max_diff_size
    /\ ~HasBoundary
    /\ Len(parse_diff(td_diff_text).files) = 1
    /\ td_result.reviewed = SubSeq(td_diff_text, 1, td_max_diff_size)
    /\ td_result.raised

\* The failure classes of the spec's error table.
TransientCauses == {"network", "http_5xx"}
PermanentCauses == {"auth", "not_found", "no_commits"}

Failures == {k \in 1..Len(gh_attempts) : gh_attempts[k] # "ok"}

\* C25: a provider operation whose attempts fail only for transient reasons (network
\* error, HTTP 5xx) is attempted again after each failure, up to three attempts in all:
\* it returns as soon as an attempt succeeds, and an error (ProviderError, from the
\* operations that wrap) surfaces only when the third attempt has failed.
C25_TransientFailureRetriedThrice ==
    (Failures # {} /\ \A k \in Failures : gh_attempts[k] \in TransientCauses) =>
        /\ Len(gh_attempts) <= gh_stop_after_attempt
        /\ gh_outcome = "returned" <=> gh_attempts[Len(gh_attempts)] = "ok"
        /\ gh_outcome \notin {"none", "returned"} =>
              /\ Len(gh_attempts) = gh_stop_after_attempt
              /\ gh_call.op # "graphql_request" => gh_outcome = "ProviderError"

\* get_pr_diff got a 5xx answer on its first attempt and surfaced ProviderError at once.
C25_Witness ==
    /\ gh_call = [op |-> "get_pr_diff", pc |-> "done"]
    /\ gh_attempts = <<"http_5xx">>
    /\ gh_outcome = "ProviderError"

\* C26: an attempt that fails for a permanent reason (authentication, not found, "PR has
\* no commits") is the last attempt of its operation: the failure is surfaced and the
\* operation is not tried again.
C26_PermanentFailureNotRetried ==
    \A k \in Failures :
        gh_attempts[k] \in PermanentCauses =>
            /\ k = Len(gh_attempts)
            /\ gh_call.pc = "done"
            /\ gh_outcome \notin {"none", "returned"}

\* get_pr_info was refused for bad credentials three times before ProviderError surfaced.
C26_Witness ==
    /\ gh_call = [op |-> "get_pr_info", pc |-> "done"]
    /\ gh_attempts = <<"auth", "auth", "auth">>
    /\ gh_outcome = "ProviderError"

\* C27: once a run has been cancelled while suspended in a provider or LLM call, the call
\* is not attempted again and no other call follows it (no post_review, no post_comment),
\* the handlers of verify-fixes, walkthrough generation and walkthrough upsert do not
\* absorb the cancellation, and review_pr ends by raising CancelledError instead of
\* returning a ReviewResult.
C27_CancellationSurfaces ==
    \A k \in 1..Len(calls) :
        calls[k].op = "cancelled" =>
            /\ k = Len(calls)
            /\ pc = "done"
            /\ outcome = "raised"
            /\ exc = [step |-> exc.step, kind |-> "CancelledError"]

\* A run was cancelled inside the walkthrough upsert, holding a review with comments that
\* it had not posted yet.
C27_Witness ==
    /\ "cancelled" \in Ops(calls)
    /\ exc = [step |-> "upsert_walkthrough", kind |-> "CancelledError"]
    /\ result.comments # <<>>
    /\ "post_review" \notin Ops(calls)
    /\ outcome = "raised"

\* LLMConfig.temperature, the configured default 0.2, in tenths.
config_temperature == 2

\* The temperature _call_llm puts in the request: kwargs["temperature"] is always
\* self.config.temperature; nothing the caller asked for reaches the request.
call_llm_temperature(asked) == config_temperature

\* C28: every verify-fixes completion is a call complete accepts (messages, json_mode
\* and temperature are all parameters of it) and the request it makes carries
\* temperature 0 and not the configured default.
C28_VerifyCompletionAtZeroTemperature ==
    \A k \in 1..Len(calls) :
        calls[k].op = "complete_verify" =>
            /\ VerifyFixesArgs \subseteq CompleteParams
            /\ call_llm_temperature(0) = 0

\* The verify-fixes completion was called on fetched threads the model would all mark
\* fixed, the step failed and was swallowed, and the run went on to return a review with
\* no decision recorded.
C28_Witness ==
    /\ threads # <<>>
    /\ llm_fixed = Range(threads)
    /\ "complete_verify" \in Ops(calls)
    /\ "verify_fixes" \in failed
    /\ "resolve_threads" \notin Ops(calls)
    /\ thread_decisions = <<>>
    /\ outcome = "returned"
    /\ result.comments # <<>>

\* Existing comments the prompt of the k-th chunk must carry: the threads handed over
\* by verify-fixes, then one synthetic id per comment accepted from chunks 1..k-1.
ExpectedExisting(k) ==
    unresolved_threads \o
        Flatten([j \in 1..(k - 1) |->
                    [n \in 1..Len(chunk_log[j].comments) |->
                        <<"_pending_", j - 1, chunk_log[j].comments[n].path,
                          chunk_log[j].comments[n].line>>]])

\* Positions in the call log of the completions of the review proper.
ReviewLLMCalls == {k \in 1..Len(calls) : calls[k].op \in {"complete_walkthrough", "complete_review"}}

\* C29: the completions of a review are made one after the other: at most one
\* walkthrough call, before every chunk call; one chunk call per chunk reached, in chunk
\* order and never more than there are chunks, each made after the previous one was
\* answered; the k-th chunk call carries as existing comments the threads handed over by
\* verify-fixes followed by every comment accepted from the chunks before it.
C29_ChunkCallsSequentialAndCumulative ==
    LET revs == CallsOf("complete_review")
    IN  /\ Len(CallsOf("complete_walkthrough")) <= 1
        /\ \A i, j \in ReviewLLMCalls :
              (calls[i].op = "complete_walkthrough" /\ calls[j].op = "complete_review") => i < j
        /\ Len(revs) = Len(chunk_log)
        /\ Len(revs) <= diff.chunks
        /\ pc = "chunks" => chunk_i = Len(revs) + 1
        /\ \A k \in 1..Len(revs) : revs[k].ids = ExpectedExisting(k)

\* After a walkthrough call, the call for the second chunk carried the comment accepted
\* from the first chunk.
C29_Witness ==
    /\ Len(CallsOf("complete_review")) = 2
    /\ chunk_log[1].comments # <<>>
    /\ CallsOf("complete_review")[2].ids = << <<"_pending_", 0, 1, 1>> >>
    /\ calls[Min({k \in 1..Len(calls) : calls[k].op \in LLMOps})].op = "complete_walkthrough"
    /\ outcome = "returned"

\* Position of a provider or LLM call in the order the verify-fixes step and the diff
\* fetch are claimed to follow.
StageOf(op) ==
    CASE op = "get_unresolved_bot_threads" -> 1
      [] op = "get_file_content" -> 2
      [] op = "complete_verify" -> 3
      [] op = "resolve_threads" -> 4
      [] op = "get_pr_diff" -> 5

\* The calls of the verify-fixes step and the diff fetch, in the order they were made.
VerifyAndDiffCalls ==
    SelectSeq(calls, LAMBDA c : c.op \in VerifyFixesOps \cup {"get_pr_diff"})

\* Paths of the thread files fetched so far, in call order.
FetchedPaths ==
    LET gets == CallsOf("get_file_content")
    IN  [k \in 1..Len(gets) |-> gets[k].ids[1][1]]

C32_PostReviewOnceAndOnlyWithComments ==
    /\ Len(CallsOf("post_review")) <= 1
    /\ (pc = "post_review" \/ "post_review" \in Ops(calls)) =>
          /\ ~self.dry_run
          /\ result.comments # <<>>
    /\ pr.reviews <= run

\* The first run posted a review; the second run, not a dry run, reviewed files,
\* ended with no surviving comment and posted nothing.
C32_Witness ==
    /\ run = 2
    /\ pr.reviews = 1
    /\ ~self.dry_run
    /\ diff.kind = "files"
    /\ Len(chunk_log) > 0
    /\ result.comments = <<>>
    /\ outcome = "returned"
    /\ "post_review" \notin Ops(calls)

\* C35: the comment classify_severity returns differs from its input in the severity
\* field at most: path, line, end_line, category, title, body, confidence, suggestion
\* and agent_prompt are those of the input.
C35_OnlySeverityChanges ==
    cs_result.done =>
        [cs_result.comment EXCEPT !.severity = cs_comment.severity] = cs_comment

\* A comment that carries an agent prompt was reclassified and came back without it.
C35_Witness ==
    /\ cs_result.done
    /\ cs_comment.agent_prompt = <<"replace the call">>
    /\ cs_comment.suggestion = <<"x = 1">>
    /\ cs_result.comment.severity # cs_comment.severity
    /\ cs_result.comment.suggestion = cs_comment.suggestion
    /\ cs_result.comment.agent_prompt = <<>>

\* The files in the order chunk_files places them, each with its estimate.
Placement ==
    SortByEstimate([k \in 1..Len(ck_files) |->
                       [file |-> ck_files[k], est |-> estimate(ck_files[k], ck_provider)]])

\* Position of the file at path in the placement order.
PlacedAt(path) == CHOOSE k \in 1..Len(Placement) : Placement[k].file.path = path

\* What chunk c held when the file at path was placed: the budget for a chunk opened
\* for an oversized file, and the estimates of its files placed earlier.
LoadBefore(c, path) ==
    Sum([k \in 1..Len(c.files) |->
            IF PlacedAt(c.files[k].path) >= PlacedAt(path) THEN 0
            ELSE IF Placement[PlacedAt(c.files[k].path)].est > Available THEN Available
            ELSE Placement[PlacedAt(c.files[k].path)].est])

\* The hunks of an oversized file are cut as claimed: a prefix of the original hunks
\* that keeps the first hunk, and that stops at the first hunk that no longer fits.
CutAsClaimed(kept, f) ==
    /\ IsPrefix(kept, f.hunks)
    /\ f.hunks # <<>> => kept # <<>>
    /\ Len(kept) > 1 =>
          file_overhead + Sum([k \in 1..Len(kept) |-> estimate_tokens(kept[k])]) <= Available
    /\ (kept # <<>> /\ Len(kept) < Len(f.hunks)) =>
          file_overhead + Sum([k \in 1..(Len(kept) + 1) |-> estimate_tokens(f.hunks[k])])
              > Available

\* C33: a file whose estimate exceeds the budget is the only file of its chunk and
\* keeps a prefix of its hunks that holds the first hunk and stops where the next hunk
\* would no longer fit; every other file is returned as given, in the first chunk that
\* had room for it when it was placed.
C33_OversizedAloneOthersFirstFit ==
    ck_result.done =>
        \A j \in 1..Len(ck_result.chunks) : \A n \in 1..Len(ck_result.chunks[j].files) :
            LET c == ck_result.chunks[j]
                f == Placement[PlacedAt(c.files[n].path)].file
            IN  IF Oversized(f)
                THEN /\ Len(c.files) = 1
                     /\ CutAsClaimed(c.files[n].hunks, f)
                ELSE /\ c.files[n] = f
                     /\ LoadBefore(c, f.path) + estimate(f, ck_provider) <= Available
                     /\ \A i \in 1..(j - 1) :
                           LoadBefore(ck_result.chunks[i], f.path) + estimate(f, ck_provider)
                               > Available

\* A chunk opened for an oversized file that lost a hunk also holds a second file.
C33_Witness ==
    /\ ck_result.done
    /\ \E c \in Range(ck_result.chunks) : \E f \in Range(ck_files) :
          /\ Len(c.files) = 2
          /\ c.files[1].path = f.path
          /\ Oversized(f)
          /\ Len(c.files[1].hunks) < Len(f.hunks)
          /\ c.token_estimate = Available

\* Target end of a hunk: target_start + target_length.
TargetEnd(h) == h.target_start + h.target_length

WellFormed(raw) ==
    /\ raw.wrap \in {"bare", "json_fence", "preamble_json_fence", "plain_fence"}
    /\ raw.doc.t = "object"
    /\ raw.doc.results.t = "list"

\* The answer lists the thread id with "fixed": true.
ListedFixed(raw, id) ==
    /\ WellFormed(raw)
    /\ \E k \in 1..Len(raw.doc.results.items) :
          LET e == raw.doc.results.items[k]
          IN  e.t = "object" /\ e.fixed = "true" /\ e.id = StrId(id)

\* C31: when the step completes, the decisions it returns are one per fetched thread,
\* in fetch order, and a thread is reported fixed exactly when the answer holds an entry
\* with its id and the boolean true: a thread the answer does not list, or lists with
\* false, 1, "true" or no fixed at all, is reported not fixed.
C31_OneDecisionPerThread ==
    (vf_result.done /\ vf_result.raised = "none") =>
        /\ Len(vf_result.decisions) = Len(vf_threads)
        /\ \A k \in 1..Len(vf_threads) :
              /\ vf_result.decisions[k].thread_id = vf_threads[k]
              /\ vf_result.decisions[k].fixed = ListedFixed(vf_raw, vf_threads[k])

\* Two threads; the answer lists the second with true and the first with the number 1:
\* the decisions come in fetch order, first not fixed, second fixed.
C31_Witness ==
    /\ vf_result.done
    /\ vf_result.raised = "none"
    /\ vf_threads = <<"T1", "T2">>
    /\ WellFormed(vf_raw)
    /\ vf_raw.doc.results.items = <<Entry(StrId("T2"), "true"), Entry(StrId("T1"), "one")>>
    /\ vf_result.decisions = <<[thread_id |-> "T1", fixed |-> FALSE],
                               [thread_id |-> "T2", fixed |-> TRUE]>>

\* The ids the parser is claimed to return for an answer: those of the entries with a
\* string id and the boolean true, in answer order; none for a malformed answer.
ExpectedIds(raw) ==
    IF ~WellFormed(raw) THEN <<>>
    ELSE LET hits == SelectSeq(raw.doc.results.items,
                               LAMBDA e : e.t = "object" /\ e.fixed = "true" /\ e.id.t = "string")
         IN  [k \in 1..Len(hits) |-> hits[k].id.v]

\* C36: whatever the raw answer is (None, text that is no JSON, JSON that is not an
\* object, an object without a results list, entries that are no objects or lack id or
\* fixed) parse_verify_fixes_response raises nothing and returns the ids of the entries
\* whose fixed is the boolean true, in answer order, an empty list for a malformed answer.
C36_ParseNeverRaises ==
    LET parsed == parse_verify_fixes_response_raw(vf_raw)
    IN  vf_result.done =>
            /\ parsed.raised = "none"
            /\ parsed.ids = ExpectedIds(vf_raw)

\* The answer was a JSON array inside a json fence: the parser raised AttributeError and
\* the step ended with it.
C36_Witness ==
    /\ vf_result.done
    /\ vf_raw = [wrap |-> "json_fence", doc |-> [t |-> "array"]]
    /\ vf_result.raised = "AttributeError"
    /\ vf_result.decisions = <<>>

\* C38: every id handed to resolve_threads is the id of a fetched thread, none is handed
\* over twice, and every decision is about a fetched thread.
C38_OnlyFetchedThreadsResolved ==
    vf_result.done =>
        /\ \A c \in 1..Len(vf_result.resolve_calls) :
              LET ids == vf_result.resolve_calls[c]
              IN  /\ Range(ids) \subseteq Range(vf_threads)
                  /\ \A i, j \in 1..Len(ids) : ids[i] = ids[j] => i = j
        /\ \A k \in 1..Len(vf_result.decisions) :
              vf_result.decisions[k].thread_id \in Range(vf_threads)

\* resolve_threads was called with an id that only the answer holds, next to the id of
\* a fetched thread.
C38_Witness ==
    /\ vf_result.done
    /\ ~vf_dry_run
    /\ vf_threads = <<"T1", "T2">>
    /\ vf_result.resolve_calls = << <<"X9", "T1">> >>
    /\ vf_result.raised = "none"
    /\ vf_result.remaining = <<"T2">>

\* C39: in a run that fetched threads and their files and made the verify-fixes
\* completion, every fetched thread that is not resolved on the pull request is among
\* the existing comments of every review prompt of the run.
C39_OpenThreadsShownToReview ==
    (threads # <<>> /\ PathsToFetch = {} /\ "complete_verify" \in Ops(calls)) =>
        \A k \in 1..Len(CallsOf("complete_review")) :
            Range(threads) \ pr.resolved \subseteq Range(CallsOf("complete_review")[k].ids)

\* Two threads were fetched and stay open, the verify-fixes completion was called, and
\* the prompt of the first chunk carried no existing comment.
C39_Witness ==
    /\ Len(threads) = 2
    /\ pr.resolved = {}
    /\ "complete_verify" \in Ops(calls)
    /\ CallsOf("complete_review") # <<>>
    /\ CallsOf("complete_review")[1].ids = <<>>
    /\ outcome = "returned"

\* The author of the event a request reports: the sender of a pull_request event, the
\* user of the comment otherwise (the sender where there is no comment).
Author(req) ==
    IF req.event \in {"issue_comment", "pull_request_review_comment"} THEN req.user
    ELSE req.sender

\* C37: the request answered last got a handler only if its signature was valid and
\* its author is not the bot; with an invalid signature it was answered 401, and with
\* a valid one and the bot as author it was answered 200 "ignored", no handler
\* scheduled in either case. Handlers are scheduled for outside deliveries only: the
\* posts the handlers make as the bot never add one.
C37_OnlySignedForeignEventsScheduled ==
    /\ wh_last.handled =>
          LET req == wh_last.req
              resp == wh_last.resp
              signed == req.signature = GoodSignature(req.id)
          IN  /\ resp.handler # "none" => signed /\ Author(req) # bot_login
              /\ ~signed => resp.status = 401 /\ resp.handler = "none"
              /\ (signed /\ Author(req) = bot_login) =>
                    /\ resp.status = 200
                    /\ resp.body = "ignored"
                    /\ resp.handler = "none"
    /\ wh_counts.scheduled <= wh_counts.delivered
    /\ wh_counts.ran <= wh_counts.delivered

\* A handler ran and posted a comment that mentions the bot; the delivery of that
\* comment, signed by GitHub, was answered "ignored" and no further handler is waiting.
C37_Witness ==
    /\ wh_counts.ran = 1
    /\ wh_last.handled
    /\ wh_last.req.user = bot_login
    /\ wh_last.req.mention
    /\ wh_last.req.event = "issue_comment"
    /\ wh_last.req.action = "created"
    /\ wh_last.req.signature = GoodSignature(wh_last.req.id)
    /\ wh_last.resp = WebhookResponse(200, "ignored", "none")
    /\ wh_tasks = <<>>

\* Comments of the pull request that hold the walkthrough marker.
Walkthroughs == {k \in 1..Len(rc_comments) : Contains(rc_comments[k].body, WALKTHROUGH_MARKER)}

\* C40: with two review_pr runs in flight on one pull request, interleaved at their
\* provider calls, the pull request never holds more than one walkthrough comment.
C40_AtMostOneWalkthrough == Cardinality(Walkthroughs) <= 1

\* Both runs returned, each after find_bot_comment found nothing and post_comment
\* succeeded: the pull request, empty before, holds the walkthrough of each.
C40_Witness ==
    /\ \A t \in {1, 2} :
          /\ rc_pc[t] = "returned"
          /\ rc_existing_id[t] = 0
          /\ rc_write[t] = "post_comment"
    /\ Len(rc_comments) = 2
    /\ rc_comments[1].body = to_markdown(1)
    /\ rc_comments[2].body = to_markdown(2)
====
